---- MODULE Spec2Model ----
(***************************************************************************)
(* A model of the streaming CSV parser of src/src/csv_reader.cpp: the      *)
(* byte-level state machine (feed, process_possible_delim, process_quote,  *)
(* process_newline, write_record, end_feed), the column-name handling      *)
(* (set_col_names / get_col_names) and the pull interface (read_row).      *)
(*                                                                         *)
(* A byte is a one-character string, a text (std::string) is a sequence of *)
(* bytes, a record (std::vector<std::string>) is a sequence of texts.      *)
(* Indices of the C++ containers are zero-based and are kept zero-based in *)
(* the model's data (subset, header_row, row_num); a sequence is indexed   *)
(* at i + 1.                                                               *)
(***************************************************************************)
EXTENDS Integers, Sequences, FiniteSets, TLC

(***************************************************************************)
(* Bytes.  DEFAULT_CSV = { ',', '"', 0, {}, false }.                       *)
(***************************************************************************)
delimiter == ","
quote_char == "\""
CR == "\r"
LF == "\n"
\* The byte std::string keeps after its last byte: *(in + 1) at the last
\* byte of a chunk reads it.
NUL == "NUL"

Alphabet == {delimiter, quote_char, CR, LF, "a"}

(***************************************************************************)
(* Bounds of the model.                                                    *)
(***************************************************************************)
\* Longest body enumerated exhaustively over Alphabet.
MaxLen == 3

RECURSIVE SeqsUpTo(_)
SeqsUpTo(n) ==
    IF n = 0 THEN {<<>>}
    ELSE LET S == SeqsUpTo(n - 1)
         IN  S \cup {Append(s, b) : s \in {t \in S : Len(t) = n - 1}, b \in Alphabet}

Last(s) == s[Len(s)]

\* std::string::operator+= on record_buffer.back()
AppendBack(rb, c) == [rb EXCEPT ![Len(rb)] = Append(@, c)]

\* *(in + 1), *(in - 1): the byte at (one-based) position i of the chunk,
\* the terminating NUL right after the last byte.
At(chunk, i) == IF i >= 1 /\ i <= Len(chunk) THEN chunk[i] ELSE NUL

\* v[i] of a std::vector for a zero-based index i; an index outside the
\* vector reads memory the vector does not own: g is what that read yields.
ElemAt(v, i, g) == IF i >= 0 /\ i < Len(v) THEN v[i + 1] ELSE g

\* What a read outside a vector can yield.
Garbage == {<<>>, <<"?">>}

(***************************************************************************)
(* CSVReader::set_col_names                                                *)
(***************************************************************************)
set_col_names(p, names, g) ==
    IF Len(p.subset) > 0
    THEN [p EXCEPT !.col_names = names,
                   !.subset_flag = TRUE,
                   !.subset_col_names =
                        @ \o [i \in 1..Len(p.subset) |-> ElemAt(names, p.subset[i], g)]]
    ELSE [p EXCEPT !.col_names = names,
                   !.subset = [i \in 1..Len(names) |-> i - 1],
                   !.subset_col_names = names]

\* CSVReader::get_col_names
get_col_names(p) == p.subset_col_names

\* CSVReader::bad_row_handler: the base class does nothing with the record;
\* bad_rows is the history of the hook's invocations, bad_when that of
\* this->row_num + 1 at each of them.
bad_row_handler(p, record) ==
    [p EXCEPT !.bad_rows = Append(@, record),
              !.bad_when = Append(@, p.row_num + 1)]

\* A faulty AcceptRecord: the row is the record's first fields, as many as
\* the subset has indices.
AcceptRecord_FirstColumns(p, record, g) ==
    [p EXCEPT !.correct_rows = @ + 1,
              !.records = Append(@,
                    IF ~p.subset_flag THEN record
                    ELSE [i \in 1..Len(p.subset) |-> ElemAt(record, i - 1, g)]),
              !.row_src = Append(@, p.n_final),
              !.all_src = Append(@, p.n_final)]

\* A faulty AcceptRecord: the record is queued whole, the subset ignored.
AcceptRecord_Unprojected(p, record, g) ==
    [p EXCEPT !.correct_rows = @ + 1,
              !.records = Append(@, record),
              !.row_src = Append(@, p.n_final),
              !.all_src = Append(@, p.n_final)]

\* write_record, row_num > header_row and record.size() == col_names.size()
AcceptRecord(p, record, g) ==
    [p EXCEPT !.correct_rows = @ + 1,
              !.records = Append(@,
                    IF ~p.subset_flag THEN record
                    ELSE [i \in 1..Len(p.subset) |-> ElemAt(record, p.subset[i], g)]),
              !.row_src = Append(@, p.n_final),
              !.all_src = Append(@, p.n_final)]

\* A faulty RejectRecord: the record is dropped without telling the hook.
RejectRecord_Silent(p, record) == [p EXCEPT !.row_num = @ - 1]

\* write_record, row_num > header_row and record.size() != col_names.size()
RejectRecord(p, record) ==
    LET q == [p EXCEPT !.row_num = @ - 1]
    IN  IF record # <<>> THEN bad_row_handler(q, record) ELSE q

\* A faulty write_record: the header row itself goes through the field-count
\* check (>= for >).
write_record_HeaderChecked(p, g) ==
    LET record == p.record_buffer
        q == [p EXCEPT !.quote_escape = FALSE]
        r == IF q.row_num >= q.header_row
             THEN IF Len(record) = Len(p.col_names)
                  THEN AcceptRecord(q, record, g)
                  ELSE RejectRecord(q, record)
             ELSE q
    IN  [r EXCEPT !.record_buffer = << <<>> >>,
                  !.row_num = @ + 1,
                  !.n_final = @ + 1]

\* A faulty write_record: the line count does not move past the first
\* header, so the record after it is taken as the header again.
write_record_HeaderAgain(p, g) ==
    LET record == p.record_buffer
        q == [p EXCEPT !.quote_escape = FALSE]
        r == IF q.row_num > q.header_row
             THEN IF Len(record) = Len(p.col_names)
                  THEN AcceptRecord(q, record, g)
                  ELSE RejectRecord(q, record)
             ELSE IF q.row_num = q.header_row
                  THEN set_col_names(q, record, g)
                  ELSE q
    IN  [r EXCEPT !.record_buffer = << <<>> >>,
                  !.row_num = IF p.row_num = p.header_row /\ p.col_names = <<>>
                              THEN @ ELSE @ + 1,
                  !.n_final = @ + 1]

(***************************************************************************)
(* CSVReader::write_record.  Histories: n_final counts the calls (the       *)
(* zero-based index of the record among the finalized records), row_src    *)
(* keeps that index for every row of records and all_src for every row     *)
(* ever queued.                                                            *)
(***************************************************************************)
write_record(p, g) ==
    LET record == p.record_buffer
        col_names_size == Len(p.col_names)
        q == [p EXCEPT !.quote_escape = FALSE]
        r == IF q.row_num > q.header_row
             THEN IF Len(record) = col_names_size
                  THEN AcceptRecord(q, record, g)
                  ELSE RejectRecord(q, record)
             ELSE IF q.row_num = q.header_row
                  THEN set_col_names(q, record, g)
                  ELSE q
    IN  [r EXCEPT !.record_buffer = << <<>> >>,
                  !.row_num = @ + 1,
                  !.n_final = @ + 1]

(***************************************************************************)
(* The per-byte callbacks of feed.  Each yields the reader after the byte  *)
(* and the position `in` was left at (process_newline and process_quote    *)
(* advance it over the byte they looked ahead at).                         *)
(***************************************************************************)
\* A faulty process_possible_delim: the new field goes in front of the
\* record's fields.
process_possible_delim_Front(p, chunk, i) ==
    IF ~p.quote_escape
    THEN [p EXCEPT !.record_buffer = << <<>> >> \o @]
    ELSE [p EXCEPT !.record_buffer = AppendBack(@, chunk[i])]

\* CSVReader::process_possible_delim
process_possible_delim(p, chunk, i) ==
    IF ~p.quote_escape
    THEN [p EXCEPT !.record_buffer = Append(@, <<>>)]
    ELSE [p EXCEPT !.record_buffer = AppendBack(@, chunk[i])]

\* A faulty process_newline: the LF of a CR LF pair is not skipped.
process_newline_NoSkip(p, chunk, i, g) ==
    IF ~p.quote_escape
    THEN [r |-> write_record(p, g), i |-> i]
    ELSE [r |-> [p EXCEPT !.record_buffer = AppendBack(@, chunk[i])], i |-> i]

\* A faulty process_newline: a CR or LF ends the record inside quotes too.
process_newline_Unquoted(p, chunk, i, g) ==
    [r |-> write_record(p, g),
     i |-> IF chunk[i] = CR /\ At(chunk, i + 1) = LF THEN i + 1 ELSE i]

process_newline(p, chunk, i, g) ==
    IF ~p.quote_escape
    THEN [r |-> write_record(p, g),
          i |-> IF chunk[i] = CR /\ At(chunk, i + 1) = LF THEN i + 1 ELSE i]
    ELSE [r |-> [p EXCEPT !.record_buffer = AppendBack(@, chunk[i])], i |-> i]

process_quote(p, chunk, i) ==
    IF p.quote_escape
    THEN IF At(chunk, i + 1) \in {delimiter, CR, LF}
         THEN [r |-> [p EXCEPT !.quote_escape = FALSE], i |-> i]
         ELSE [r |-> [p EXCEPT !.record_buffer = AppendBack(@, chunk[i])],
               i |-> IF At(chunk, i + 1) = quote_char THEN i + 1 ELSE i]
    ELSE IF i # 1 /\ At(chunk, i - 1) = delimiter
         THEN [r |-> [p EXCEPT !.quote_escape = TRUE], i |-> i]
         ELSE [r |-> p, i |-> i]

\* The body of feed's loop for the byte at position i.
ProcessByte(p, chunk, i, g) ==
    IF chunk[i] = delimiter
    THEN [r |-> process_possible_delim(p, chunk, i), i |-> i]
    ELSE IF chunk[i] = quote_char
    THEN process_quote(p, chunk, i)
    ELSE IF chunk[i] \in {CR, LF}
    THEN process_newline(p, chunk, i, g)
    ELSE [r |-> [p EXCEPT !.record_buffer = AppendBack(@, chunk[i])], i |-> i]

\* CSVReader::feed: the loop from position i on.
RECURSIVE FeedFrom(_, _, _, _)
FeedFrom(p, chunk, i, g) ==
    IF i > Len(chunk) THEN p
    ELSE LET s == ProcessByte(p, chunk, i, g)
         IN  FeedFrom(s.r, chunk, s.i + 1, g)

\* fed is the history of the bytes handed to feed, in the order of the calls.
feed(p, chunk, g) == FeedFrom([p EXCEPT !.fed = @ \o chunk], chunk, 1, g)

\* A faulty end_feed: the record in flight is left where it is.
end_feed_Idle(p, g) == p

\* CSVReader::end_feed
end_feed(p, g) == write_record(p, g)

\* CSVReader::clear
clear(p) == [p EXCEPT !.records = <<>>, !.row_src = <<>>]

(***************************************************************************)
(* Construction.  A Format is (header, col_names, strict); delim and       *)
(* quote_char are those of DEFAULT_CSV throughout.                         *)
(***************************************************************************)
\* Largest header index of the Formats tried.
MaxHeader == 1

DEFAULT_CSV == [header |-> 0, col_names |-> <<>>, strict |-> FALSE]
DEFAULT_CSV_STRICT == [header |-> 0, col_names |-> <<>>, strict |-> TRUE]
NAMED_CSV == [header |-> 0, col_names |-> << <<"x">>, <<"y">> >>, strict |-> FALSE]

Formats ==
    {[header |-> h, col_names |-> <<>>, strict |-> FALSE] : h \in -1..MaxHeader}
        \cup {DEFAULT_CSV_STRICT, NAMED_CSV}

Subsets == {<<>>, <<0>>, <<1, 0>>}

\* The (Format, subset) pairs a reader is constructed from.
Configs ==
    {[format |-> f, subset |-> <<>>] : f \in Formats}
        \cup {[format |-> f, subset |-> m] :
                f \in {DEFAULT_CSV, NAMED_CSV}, m \in Subsets \ {<<>>}}

\* The members of a CSVReader as their in-class initializers leave them.
BlankReader ==
    [header_row |-> 0, subset |-> <<>>, subset_flag |-> FALSE,
     col_names |-> <<>>, subset_col_names |-> <<>>,
     quote_escape |-> FALSE, record_buffer |-> << <<>> >>,
     row_num |-> 0, correct_rows |-> 0, records |-> <<>>,
     current_row_set |-> FALSE, current_row |-> 0, dangling |-> FALSE,
     bad_rows |-> <<>>, bad_when |-> <<>>, n_final |-> 0, row_src |-> <<>>,
     fed |-> <<>>, all_src |-> <<>>]

\* CSVReader::CSVReader(CSVFormat format, std::vector<int> _subset).
\* format.strict is not read.
NewReader(fmt, sub, g) ==
    LET p == [BlankReader EXCEPT !.header_row = fmt.header, !.subset = sub]
    IN  IF fmt.col_names # <<>>
        THEN set_col_names([p EXCEPT !.header_row = -1], fmt.col_names, g)
        ELSE p

(***************************************************************************)
(* Inputs: a header line (or none) followed by a body; the bodies are all  *)
(* the texts of at most MaxLen bytes and the scenarios below.              *)
(***************************************************************************)
HeaderLines == {<<>>, <<"a", LF>>, <<"a", delimiter, "a", LF>>}

\* The texts put between quotes.
QuotedTexts == {<<"a">>, <<delimiter>>, <<"a", delimiter, "a">>}
\* "hello, world",42 LF  as  "x",a LF
QuotedFirst(x) == <<quote_char>> \o x \o <<quote_char, delimiter, "a", LF>>
\* 42,"hello, world" LF  as  a,"x" LF
QuotedSecond(x) == <<"a", delimiter, quote_char>> \o x \o <<quote_char, LF>>
\* "she said ""hi""",7  as  "a""a""",a
DoubledFirst ==
    <<quote_char, "a", quote_char, quote_char, "a", quote_char, quote_char,
      quote_char, delimiter, "a", LF>>
\* 7,"she said ""hi"""  as  a,"a""a"""
DoubledSecond ==
    <<"a", delimiter, quote_char, "a", quote_char, quote_char, "a",
      quote_char, quote_char, quote_char, LF>>
\* 1,"line1 LF line2" LF 2,ok LF
QuotedNewline ==
    <<"a", delimiter, quote_char, "a", LF, "a", quote_char, LF,
      "a", delimiter, "a", LF>>
\* three records, the last one unterminated, CRLF terminators
ThreeRows ==
    <<"a", delimiter, "a", CR, LF, delimiter, "a", CR, LF, "a", delimiter>>
\* a short, a long and a good row
MixedRows ==
    <<"a", LF, "a", delimiter, "a", delimiter, "a", LF, "a", delimiter, "a", LF>>

\* a,"a"  with nothing after the closing quote
QuotedLast == <<"a", delimiter, quote_char, "a", quote_char>>

Scenarios ==
    {QuotedFirst(x) : x \in QuotedTexts} \cup {QuotedSecond(x) : x \in QuotedTexts}
        \cup {DoubledFirst, DoubledSecond, QuotedNewline, ThreeRows, MixedRows,
              QuotedLast}

Bodies == SeqsUpTo(MaxLen) \cup Scenarios

Inputs == {h \o b : h \in HeaderLines, b \in Bodies}

(***************************************************************************)
(* Files.  read_csv reads the file line by line (fgets), gathers the lines *)
(* in a buffer and hands the buffer to the worker through feed_buffer.     *)
(***************************************************************************)
\* Longest file body enumerated exhaustively over Alphabet.
MaxFileLen == 2
\* The constructor's line budget (read_csv(filename, 100, false)), scaled.
InitialRows == 2
\* ITERATION_CHUNK_SIZE, the line budget of a lazy read, scaled.
IterationRows == 1
\* The buffer size at which read_csv hands the buffer over, scaled
\* (1000000 bytes in the source).
FlushBytes == 3
\* sizeof(char[10000]): fgets stores at most one byte less.
LineBufferSize == 10000

FileRows ==
    <<"a", delimiter, "a", LF, delimiter, LF, "a", delimiter, LF, delimiter, "a">>

\* What the file system holds under a filename that cannot be opened.
NoSuchFile == <<"ENOENT">>

FileInputs ==
    {h \o b : h \in HeaderLines, b \in SeqsUpTo(MaxFileLen) \cup {FileRows, MixedRows}}
        \cup {NoSuchFile}

FileConfigs ==
    {[format |-> f, subset |-> <<>>] :
        f \in {DEFAULT_CSV, DEFAULT_CSV_STRICT, NAMED_CSV}}
        \cup {[format |-> DEFAULT_CSV, subset |-> <<0>>]}

\* The termination signal on feed_buffer: a pointer that is no chunk.
nullptr == <<"nullptr">>

\* What dereferencing an iterator that designates no row yields.
WildRow == << <<"?">> >>

\* std::fgets(line_buffer, sizeof(char[10000]), infile) at offset at: the
\* bytes up to and including the next LF, at most LineBufferSize - 1 of them.
RECURSIVE LineEnd(_, _, _)
LineEnd(file, at, n) ==
    IF at + n >= Len(file) \/ n >= LineBufferSize - 1 THEN n
    ELSE IF file[at + n + 1] = LF THEN n + 1
    ELSE LineEnd(file, at, n + 1)

fgets(file, at) == SubSeq(file, at + 1, at + LineEnd(file, at, 0))

(***************************************************************************)
(* The state: one reader and its caller.  In push mode the caller cuts the *)
(* input at positions of its choice, calls feed on each piece, then        *)
(* end_feed, then pulls rows with read_row.  In file mode the constructor  *)
(* runs read_csv and the caller pulls rows, each pull running read_csv     *)
(* again when the queue is used up and the file is still open.             *)
(***************************************************************************)
VARIABLES
    reader,     \* the CSVReader object's parser members
    config,     \* the constructor's arguments
    mode,       \* "push", "file" (the file constructor) or "read_csv"
    input,      \* the bytes the caller will feed, or the file's content
    pos,        \* push mode: how many of them the caller has fed
    feed_calls, \* history: feed calls made so far, 2 standing for two or more
    error,      \* the exception the last call raised ("none": it returned)
    phase,      \* push: "feeding", "ended"; file: "constructing", "ready"
    row,        \* the out-parameter of read_row
    ret,        \* what the last read_row returned ("none" before the first)
    delivered,  \* history: the source index of every row read_row handed out
    infile,     \* "null" or "open"
    fpos,       \* the offset of infile
    eof_flag,   \* the end-of-file indicator of infile (std::feof)
    rpc,        \* where the calling thread is in read_csv
    caller,     \* who called read_csv: "ctor", "user", "read_row", "iter"
                \* ("none": nobody)
    nrows,      \* read_csv's remaining line budget
    buffer,     \* read_csv's buffer
    feed_buffer, \* the queue between read_csv and the worker
    feed_lock,  \* who holds it: "free", "reader", "worker"
    notified,   \* feed_cond was notified while the worker was waiting on it
    wpc,        \* where the worker thread is in _read_csv ("none": no worker)
    win,        \* the chunk the worker popped
    iter,       \* the loop for (it = begin(); it != end(); ++it): where it
                \* is (pc), record_it as an offset into records (it), and
                \* whether record_it was invalidated (stale)
    visited,    \* history: the source index of every row the loop visited
    scan,       \* a call of helpers::data_type: its argument and locals
    guess       \* a call of guess_format: the CSVGuesser and its locals

parserVars == <<reader, config, mode, input, error, phase>>
pushVars == <<pos, feed_calls>>
pullVars == <<row, ret, delivered>>
fileVars == <<infile, fpos, eof_flag>>
callVars == <<rpc, caller, nrows, buffer>>
queueVars == <<feed_buffer, feed_lock, notified>>
workerVars == <<wpc, win>>
iterVars == <<iter, visited>>
helperVars == <<scan, guess>>

vars ==
    <<reader, config, mode, input, pos, feed_calls, error, phase, row, ret,
      delivered, infile, fpos, eof_flag, rpc, caller, nrows, buffer,
      feed_buffer, feed_lock, notified, wpc, win,
      iter, visited, scan, guess>>

\* No call of a free function is in progress.
NoCall == [pc |-> "none"]

\* What the in-class initializers and the caller's locals start as.
InitObject ==
    /\ pos = 0
    /\ feed_calls = 0
    /\ error = "none"
    /\ row = <<>>
    /\ ret = "none"
    /\ delivered = <<>>
    /\ infile = "null"
    /\ fpos = 0
    /\ eof_flag = FALSE
    /\ buffer = <<>>
    /\ feed_buffer = <<>>
    /\ feed_lock = "free"
    /\ notified = FALSE
    /\ wpc = "none"
    /\ win = <<>>
    /\ iter = [pc |-> "none", it |-> 0, stale |-> FALSE]
    /\ visited = <<>>

InitCommon ==
    /\ InitObject
    /\ scan = NoCall
    /\ guess = NoCall

\* CSVReader(format, subset): a reader to be fed by its caller.
InitPush ==
    /\ mode = "push"
    /\ config \in Configs
    /\ \E g \in Garbage : reader = NewReader(config.format, config.subset, g)
    /\ input \in Inputs
    /\ phase = "feeding"
    /\ rpc = "idle"
    /\ caller = "none"
    /\ nrows = 0
    /\ InitCommon

\* CSVReader(filename, subset, format) with a delimiter given, at its call
\* read_csv(filename, 100, false).  This constructor does not look at
\* format.col_names.
InitFile ==
    /\ mode = "file"
    /\ config \in FileConfigs
    /\ reader = [BlankReader EXCEPT !.header_row = config.format.header,
                                    !.subset = config.subset]
    /\ input \in FileInputs
    /\ phase = "constructing"
    /\ rpc = "call"
    /\ caller = "ctor"
    /\ nrows = InitialRows
    /\ InitCommon

\* CSVReader reader(format, subset); reader.read_csv(filename), at the call:
\* the line budget is the default argument nrows = -1, the whole file.
InitReadCsv ==
    /\ mode = "read_csv"
    /\ config \in FileConfigs
    /\ \E g \in Garbage : reader = NewReader(config.format, config.subset, g)
    /\ input \in FileInputs
    /\ phase = "constructing"
    /\ rpc = "call"
    /\ caller = "user"
    /\ nrows = -1
    /\ InitCommon

Init == InitPush \/ InitFile \/ InitReadCsv

(***************************************************************************)
(* Push mode.                                                              *)
(***************************************************************************)
\* feed(chunk) for the next n bytes of the input
Feed(n) ==
    /\ phase = "feeding"
    /\ pos + n <= Len(input)
    /\ \E g \in Garbage :
          reader' = feed(reader, SubSeq(input, pos + 1, pos + n), g)
    /\ pos' = pos + n
    /\ feed_calls' = IF feed_calls = 0 THEN 1 ELSE 2
    /\ UNCHANGED <<config, mode, input, error, phase>>
    /\ UNCHANGED <<pullVars, fileVars, callVars, queueVars, workerVars>>
    /\ UNCHANGED <<iterVars, helperVars>>

\* end_feed() after the last chunk
EndFeed ==
    /\ phase = "feeding"
    /\ pos = Len(input)
    /\ \E g \in Garbage : reader' = end_feed(reader, g)
    /\ phase' = "ended"
    /\ UNCHANGED <<config, mode, input, error>>
    /\ UNCHANGED <<pushVars, pullVars, fileVars, callVars, queueVars, workerVars>>
    /\ UNCHANGED <<iterVars, helperVars>>

(***************************************************************************)
(* CSVReader::read_csv, the calling thread.                                *)
(***************************************************************************)
\* A faulty ReadCsvStart: the worker is started and whatever fopen returned
\* is read from.
ReadCsvStart_Unchecked ==
    /\ rpc = "call"
    /\ infile' = "open"
    /\ buffer' = <<>>
    /\ wpc' = "lock"
    /\ rpc' = "loop"
    /\ UNCHANGED <<parserVars, pushVars, pullVars, fpos, eof_flag, caller, nrows,
                   queueVars, win>>
    /\ UNCHANGED <<iterVars, helperVars>>

\* fopen when no file is open, throwing when it fails; then the two
\* buffers and std::thread worker(...)
ReadCsvStart ==
    /\ rpc = "call"
    /\ IF infile = "null" /\ input = NoSuchFile
       THEN /\ error' = "runtime_error"
            /\ rpc' = "thrown"
            /\ UNCHANGED <<infile, buffer, wpc>>
       ELSE /\ infile' = "open"
            /\ buffer' = <<>>
            /\ wpc' = "lock"
            /\ rpc' = "loop"
            /\ UNCHANGED error
    /\ UNCHANGED <<reader, config, mode, input, phase, pushVars, pullVars, fpos,
                   eof_flag, caller, nrows, queueVars, win>>
    /\ UNCHANGED <<iterVars, helperVars>>

\* One round of  while (nrows <= -1 || nrows > 0)
ReadCsvLine ==
    /\ rpc = "loop"
    /\ IF ~(nrows <= -1 \/ nrows > 0)
       THEN /\ rpc' = "final"
            /\ UNCHANGED <<fpos, eof_flag, nrows, buffer>>
       ELSE LET line == fgets(input, fpos)
            IN  IF line = <<>>
                THEN \* result == NULL: nothing left to read
                     /\ eof_flag' = TRUE
                     /\ rpc' = "final"
                     /\ UNCHANGED <<fpos, nrows, buffer>>
                ELSE IF Last(line) # LF /\ fpos + Len(line) = Len(input)
                THEN \* the file ended inside the line
                     /\ eof_flag' = TRUE
                     /\ fpos' = fpos + Len(line)
                     /\ buffer' = buffer \o line
                     /\ rpc' = "final"
                     /\ UNCHANGED nrows
                ELSE /\ fpos' = fpos + Len(line)
                     /\ buffer' = buffer \o line
                     /\ nrows' = nrows - 1
                     /\ rpc' = IF Len(buffer \o line) >= FlushBytes
                               THEN "flush" ELSE "loop"
                     /\ UNCHANGED eof_flag
    /\ UNCHANGED <<parserVars, pushVars, pullVars, infile, caller, queueVars,
                   workerVars>>
    /\ UNCHANGED <<iterVars, helperVars>>

\* A faulty ReadCsvLock: the calling thread goes on to the queue without
\* taking feed_lock.
ReadCsvLock_NoLock ==
    /\ rpc \in {"flush", "final"}
    /\ rpc' = IF rpc = "flush" THEN "flush_locked" ELSE "final_locked"
    /\ UNCHANGED <<parserVars, pushVars, pullVars, fileVars, caller, nrows, buffer,
                   queueVars, workerVars>>
    /\ UNCHANGED <<iterVars, helperVars>>

\* std::unique_lock<std::mutex> lock{ feed_lock }, in the loop and after it
ReadCsvLock ==
    /\ rpc \in {"flush", "final"}
    /\ feed_lock = "free"
    /\ feed_lock' = "reader"
    /\ rpc' = IF rpc = "flush" THEN "flush_locked" ELSE "final_locked"
    /\ UNCHANGED <<parserVars, pushVars, pullVars, fileVars, caller, nrows, buffer,
                   feed_buffer, notified, workerVars>>
    /\ UNCHANGED <<iterVars, helperVars>>

\* push_back(buffer); notify_one(); buffer = new std::string(); the lock
\* is released at the end of the block
ReadCsvFlush ==
    /\ rpc = "flush_locked"
    /\ feed_buffer' = Append(feed_buffer, buffer)
    /\ notified' = (notified \/ wpc = "wait")
    /\ buffer' = <<>>
    /\ feed_lock' = "free"
    /\ rpc' = "loop"
    /\ UNCHANGED <<parserVars, pushVars, pullVars, fileVars, caller, nrows,
                   workerVars>>
    /\ UNCHANGED <<iterVars, helperVars>>

\* A faulty ReadCsvFinal: the termination signal is pushed without
\* notify_one().
ReadCsvFinal_Silent ==
    /\ rpc = "final_locked"
    /\ feed_buffer' = feed_buffer \o <<buffer, nullptr>>
    /\ buffer' = <<>>
    /\ feed_lock' = "free"
    /\ rpc' = "join"
    /\ UNCHANGED <<parserVars, pushVars, pullVars, fileVars, caller, nrows,
                   notified, workerVars>>
    /\ UNCHANGED <<iterVars, helperVars>>

\* push_back(buffer); push_back(nullptr); notify_one(); lock.unlock()
ReadCsvFinal ==
    /\ rpc = "final_locked"
    /\ feed_buffer' = feed_buffer \o <<buffer, nullptr>>
    /\ notified' = (notified \/ wpc = "wait")
    /\ buffer' = <<>>
    /\ feed_lock' = "free"
    /\ rpc' = "join"
    /\ UNCHANGED <<parserVars, pushVars, pullVars, fileVars, caller, nrows,
                   workerVars>>
    /\ UNCHANGED <<iterVars, helperVars>>

\* CSVReader::close
close_file == IF infile = "open" THEN "null" ELSE infile

\* A faulty ReadCsvJoin: end_feed() and close() whether or not the end of
\* the file was met.
ReadCsvJoin_AlwaysEnds ==
    /\ rpc = "join"
    /\ wpc = "exited"
    /\ wpc' = "none"
    /\ \E g \in Garbage : reader' = end_feed(reader, g)
    /\ infile' = close_file
    /\ IF caller \in {"ctor", "user"}
       THEN /\ rpc' = "idle"
            /\ caller' = "none"
            /\ phase' = "ready"
       ELSE /\ rpc' = "returned"
            /\ UNCHANGED <<caller, phase>>
    /\ UNCHANGED <<config, mode, input, error, pushVars, pullVars, fpos, eof_flag,
                   nrows, buffer, queueVars, win>>
    /\ UNCHANGED <<iterVars, helperVars>>

\* worker.join(); if (std::feof(infile)) { end_feed(); close(); } and the
\* return to the constructor, which is then done
ReadCsvJoin ==
    /\ rpc = "join"
    /\ wpc = "exited"
    /\ wpc' = "none"
    /\ IF eof_flag
       THEN /\ \E g \in Garbage : reader' = end_feed(reader, g)
            /\ infile' = close_file
       ELSE UNCHANGED <<reader, infile>>
    /\ IF caller \in {"ctor", "user"}
       THEN /\ rpc' = "idle"
            /\ caller' = "none"
            /\ phase' = "ready"
       ELSE /\ rpc' = "returned"
            /\ UNCHANGED <<caller, phase>>
    /\ UNCHANGED <<config, mode, input, error, pushVars, pullVars, fpos, eof_flag,
                   nrows, buffer, queueVars, win>>
    /\ UNCHANGED <<iterVars, helperVars>>

(***************************************************************************)
(* CSVReader::_read_csv, the worker thread.                                *)
(***************************************************************************)
\* std::unique_lock<std::mutex> lock{ feed_lock }, and the lock taken again
\* when feed_cond.wait wakes up
WorkerLock ==
    /\ wpc = "lock"
    /\ feed_lock = "free"
    /\ feed_lock' = "worker"
    /\ wpc' = "locked"
    /\ UNCHANGED <<parserVars, pushVars, pullVars, fileVars, callVars, feed_buffer,
                   notified, win>>
    /\ UNCHANGED <<iterVars, helperVars>>

\* feed_cond.wait(lock, pred) with the queue empty: unlock and sleep
WorkerWait ==
    /\ wpc = "locked"
    /\ feed_buffer = <<>>
    /\ feed_lock' = "free"
    /\ notified' = FALSE
    /\ wpc' = "wait"
    /\ UNCHANGED <<parserVars, pushVars, pullVars, fileVars, callVars, feed_buffer,
                   win>>
    /\ UNCHANGED <<iterVars, helperVars>>

\* the notification arrives
WorkerWake ==
    /\ wpc = "wait"
    /\ notified
    /\ notified' = FALSE
    /\ wpc' = "lock"
    /\ UNCHANGED <<parserVars, pushVars, pullVars, fileVars, callVars, feed_buffer,
                   feed_lock, win>>
    /\ UNCHANGED <<iterVars, helperVars>>

\* A faulty WorkerPop: the worker takes the newest chunk, not the oldest.
WorkerPop_Back ==
    /\ wpc = "locked"
    /\ feed_buffer # <<>>
    /\ win' = Last(feed_buffer)
    /\ feed_buffer' = SubSeq(feed_buffer, 1, Len(feed_buffer) - 1)
    /\ feed_lock' = "free"
    /\ wpc' = IF Last(feed_buffer) = nullptr THEN "exited" ELSE "feed"
    /\ UNCHANGED <<parserVars, pushVars, pullVars, fileVars, callVars, notified>>
    /\ UNCHANGED <<iterVars, helperVars>>

\* in = feed_buffer.front(); pop_front(); a null pointer ends the worker,
\* anything else is fed after lock.unlock()
WorkerPop ==
    /\ wpc = "locked"
    /\ feed_buffer # <<>>
    /\ win' = Head(feed_buffer)
    /\ feed_buffer' = Tail(feed_buffer)
    /\ feed_lock' = "free"
    /\ wpc' = IF Head(feed_buffer) = nullptr THEN "exited" ELSE "feed"
    /\ UNCHANGED <<parserVars, pushVars, pullVars, fileVars, callVars, notified>>
    /\ UNCHANGED <<iterVars, helperVars>>

\* this->feed(*in); delete in
WorkerFeed ==
    /\ wpc = "feed"
    /\ \E g \in Garbage : reader' = feed(reader, win, g)
    /\ win' = <<>>
    /\ wpc' = "lock"
    /\ UNCHANGED <<config, mode, input, error, phase, pushVars, pullVars, fileVars,
                   callVars, queueVars>>
    /\ UNCHANGED <<iterVars, helperVars>>

(***************************************************************************)
(* CSVReader::read_row(std::vector<std::string>&) and read_row_check.      *)
(***************************************************************************)
\* if (!current_row_set) { current_row_set = true; current_row = begin(); }
SetCurrentRow(p) ==
    IF p.current_row_set THEN p
    ELSE [p EXCEPT !.current_row_set = TRUE, !.current_row = 0, !.dangling = FALSE]

\* current_row == records.end().  An iterator invalidated by clear() may
\* compare either way (wild).
AtEnd(p, wild) == IF p.dangling THEN wild ELSE p.current_row = Len(p.records)

\* row.swap(*current_row); current_row++.  The queue's slot keeps what the
\* caller's vector held.
SwapOut(p, r) ==
    [p EXCEPT !.records[p.current_row + 1] = r, !.current_row = @ + 1]

\* this->clear() in read_row_check: every iterator into a queue that held
\* rows is invalid from here on.
ClearInCheck(p) ==
    [clear(p) EXCEPT !.dangling = (p.dangling \/ Len(p.records) > 0)]

\* read_row up to its return, or up to its call of read_csv
ReadRow ==
    /\ phase \in {"ended", "ready"}
    /\ rpc = "idle"
    /\ iter.pc = "none"
    /\ \E wild \in BOOLEAN :
        LET p == SetCurrentRow(reader)
        IN  IF AtEnd(p, wild)
            THEN /\ reader' = ClearInCheck(p)
                 /\ IF infile = "open"
                    THEN /\ rpc' = "call"
                         /\ caller' = "read_row"
                         /\ nrows' = IterationRows
                         /\ UNCHANGED <<row, ret, delivered>>
                    ELSE /\ ret' = "false"
                         /\ UNCHANGED <<row, delivered, rpc, caller, nrows>>
            ELSE IF p.dangling
            THEN /\ row' = WildRow
                 /\ ret' = "true"
                 /\ reader' = p
                 /\ UNCHANGED <<delivered, rpc, caller, nrows>>
            ELSE /\ row' = p.records[p.current_row + 1]
                 /\ ret' = "true"
                 /\ reader' = SwapOut(p, row)
                 /\ delivered' = Append(delivered, p.row_src[p.current_row + 1])
                 /\ UNCHANGED <<rpc, caller, nrows>>
    /\ UNCHANGED <<config, mode, input, error, phase, pushVars, fileVars, buffer,
                   queueVars, workerVars>>
    /\ UNCHANGED <<iterVars, helperVars>>

\* read_csv has returned to read_row_check: current_row = records.begin();
\* return true; then row.swap(*current_row); current_row++; return true
ReadRowResume ==
    /\ rpc = "returned"
    /\ caller = "read_row"
    /\ rpc' = "idle"
    /\ caller' = "none"
    /\ ret' = "true"
    /\ LET p == [reader EXCEPT !.current_row = 0, !.dangling = FALSE]
       IN  IF Len(p.records) = 0
           THEN \* *records.end() is no row
                /\ row' = WildRow
                /\ reader' = [p EXCEPT !.dangling = TRUE]
                /\ UNCHANGED delivered
           ELSE /\ row' = p.records[1]
                /\ reader' = SwapOut(p, row)
                /\ delivered' = Append(delivered, p.row_src[1])
    /\ UNCHANGED <<config, mode, input, error, phase, pushVars, fileVars, nrows,
                   buffer, queueVars, workerVars>>
    /\ UNCHANGED <<iterVars, helperVars>>

(***************************************************************************)
(* CSVReader::iterator: the loop                                           *)
(*     for (auto it = reader.begin(); it != reader.end(); ++it) { *it }   *)
(***************************************************************************)
\* it = reader.begin()
IterBegin ==
    /\ phase \in {"ended", "ready"}
    /\ rpc = "idle"
    /\ ret = "none"
    /\ iter.pc = "none"
    /\ iter' = [pc |-> "test", it |-> 0, stale |-> FALSE]
    /\ UNCHANGED <<parserVars, pushVars, pullVars, fileVars, callVars, queueVars,
                   workerVars, visited>>
    /\ UNCHANGED helperVars

\* return !(*this == other), other being records.end()
IterCompare(p, it) == IF it = Len(p.records) THEN "done" ELSE "body"

\* it != reader.end(): with the queue empty and the file open, clear() and
\* the call of read_csv(infile_name, 100, false); else the comparison
IterTest ==
    /\ iter.pc = "test"
    /\ rpc = "idle"
    /\ IF reader.records = <<>> /\ infile = "open"
       THEN /\ reader' = clear(reader)
            /\ rpc' = "call"
            /\ caller' = "iter"
            /\ nrows' = InitialRows
            /\ UNCHANGED iter
       ELSE /\ iter' = [iter EXCEPT !.pc = IterCompare(reader, iter.it)]
            /\ UNCHANGED <<reader, rpc, caller, nrows>>
    /\ UNCHANGED <<config, mode, input, error, phase, pushVars, pullVars, fileVars,
                   buffer, queueVars, workerVars, visited>>
    /\ UNCHANGED helperVars

\* read_csv has returned to operator!=: other = end(); return !(*this ==
\* other).  The rows pushed on the queue invalidated record_it: it may
\* still designate the front of the queue, or compare equal to end().
IterResume ==
    /\ rpc = "returned"
    /\ caller = "iter"
    /\ rpc' = "idle"
    /\ caller' = "none"
    /\ IF reader.records = <<>>
       THEN iter' = [iter EXCEPT !.pc = IterCompare(reader, iter.it)]
       ELSE \E front \in BOOLEAN :
                iter' = IF front THEN [iter EXCEPT !.pc = "body"]
                        ELSE [iter EXCEPT !.pc = "done", !.stale = TRUE]
    /\ UNCHANGED <<parserVars, pushVars, pullVars, fileVars, nrows, buffer,
                   queueVars, workerVars, visited>>
    /\ UNCHANGED helperVars

\* the loop's body reads *it; then ++it
IterBody ==
    /\ iter.pc = "body"
    /\ visited' = Append(visited, reader.row_src[iter.it + 1])
    /\ iter' = [iter EXCEPT !.it = @ + 1, !.pc = "test"]
    /\ UNCHANGED <<parserVars, pushVars, pullVars, fileVars, callVars, queueVars,
                   workerVars>>
    /\ UNCHANGED helperVars

Next ==
    \/ \E n \in 1..(Len(input) - pos) : Feed(n)
    \/ EndFeed
    \/ ReadCsvStart
    \/ ReadCsvLine
    \/ ReadCsvLock
    \/ ReadCsvFlush
    \/ ReadCsvFinal
    \/ ReadCsvJoin
    \/ WorkerLock
    \/ WorkerWait
    \/ WorkerWake
    \/ WorkerPop
    \/ WorkerFeed
    \/ ReadRow
    \/ ReadRowResume
    \/ IterBegin
    \/ IterTest
    \/ IterResume
    \/ IterBody

Spec == Init /\ [][Next]_vars

(***************************************************************************)
(* The file-backed reader alone, its two threads scheduled fairly: a       *)
(* thread that can take its next step is not left behind forever.  When    *)
(* the caller calls read_row is the caller's business.                     *)
(***************************************************************************)
CallingThread ==
    \/ ReadCsvStart
    \/ ReadCsvLine
    \/ ReadCsvLock
    \/ ReadCsvFlush
    \/ ReadCsvFinal
    \/ ReadCsvJoin

\* The worker's steps around the feed queue.
WorkerQueue ==
    \/ WorkerLock
    \/ WorkerWait
    \/ WorkerWake
    \/ WorkerPop

NextReadCsv ==
    \/ CallingThread
    \/ WorkerQueue
    \/ WorkerFeed
    \/ ReadRow
    \/ ReadRowResume

InitFiles == InitFile \/ InitReadCsv

SpecReadCsv ==
    /\ InitFiles
    /\ [][NextReadCsv]_vars
    /\ WF_vars(CallingThread)
    /\ WF_vars(WorkerQueue)
    \* WF_vars(WorkerFeed): this->feed(*in) can return whenever the worker
    \* is in it, and the worker is out of it once it has.
    /\ []<>(wpc # "feed")

\* The reader object and its caller, when the program only calls a free
\* function that makes no use of them.
NoReader ==
    /\ mode = "none"
    /\ config = [format |-> DEFAULT_CSV, subset |-> <<>>]
    /\ reader = BlankReader
    /\ input = <<>>
    /\ phase = "none"
    /\ rpc = "idle"
    /\ caller = "none"
    /\ nrows = 0
    /\ InitObject

objectVars ==
    <<parserVars, pushVars, pullVars, fileVars, callVars, queueVars, workerVars,
      iterVars>>

(***************************************************************************)
(* helpers::data_type(const std::string &in).  A text is a sequence over   *)
(* the five kinds of byte the switch tells apart.                          *)
(***************************************************************************)
SPACE == " "
MINUS == "-"
DOT == "."
DIGIT == "1"
LETTER == "x"

TextBytes == {SPACE, MINUS, DOT, DIGIT, LETTER}

\* Longest text enumerated.
MaxTextLen == 4

RECURSIVE TextsUpTo(_)
TextsUpTo(n) ==
    IF n = 0 THEN {<<>>}
    ELSE LET S == TextsUpTo(n - 1)
         IN  S \cup {Append(t, b) : t \in {u \in S : Len(u) = n - 1}, b \in TextBytes}

Texts == TextsUpTo(MaxTextLen)

\* enum DataType
_null == "_null"
_string == "_string"
_int == "_int"
_float == "_float"
DataType == {_null, _string, _int, _float}

isdigit(b) == b = DIGIT

\* The locals of data_type at the top of its loop; i is the zero-based loop
\* index.  outside is the history of a read of in[k] with k no index of in.
Locals(in) ==
    [pc |-> "loop", in |-> in, i |-> 0,
     ws_allowed |-> TRUE, neg_allowed |-> TRUE, dot_allowed |-> TRUE,
     digit_allowed |-> TRUE, has_digit |-> FALSE, prob_float |-> FALSE,
     result |-> "none", outside |-> FALSE]

Return(s, t) == [s EXCEPT !.pc = "returned", !.result = t]

\* case ' ': with g what isdigit yields on a byte read outside the text
case_space(s, g) ==
    IF ~s.ws_allowed
    THEN LET inside == s.i - 1 >= 0 /\ s.i - 1 < Len(s.in)
             t == [s EXCEPT !.outside = @ \/ ~inside]
         IN  IF (IF inside THEN isdigit(s.in[s.i]) ELSE g)
             THEN [t EXCEPT !.digit_allowed = FALSE, !.ws_allowed = TRUE]
             ELSE Return(t, _string)
    ELSE s

\* case '-':
case_minus(s) ==
    IF ~s.neg_allowed THEN Return(s, _string)
    ELSE [s EXCEPT !.neg_allowed = FALSE]

\* A faulty case '.': the decimal point is accepted, the number stays an
\* integer.
case_dot_NoFloat(s) ==
    IF ~s.dot_allowed THEN Return(s, _string)
    ELSE [s EXCEPT !.dot_allowed = FALSE]

\* case '.':
case_dot(s) ==
    IF ~s.dot_allowed THEN Return(s, _string)
    ELSE [s EXCEPT !.dot_allowed = FALSE, !.prob_float = TRUE]

\* A faulty default case: a digit after the trailing padding is accepted.
case_default_AnyDigit(s) ==
    IF isdigit(s.in[s.i + 1])
    THEN [s EXCEPT !.ws_allowed = FALSE, !.has_digit = TRUE]
    ELSE Return(s, _string)

\* default:
case_default(s) ==
    IF isdigit(s.in[s.i + 1])
    THEN IF ~s.digit_allowed THEN Return(s, _string)
         ELSE [s EXCEPT !.ws_allowed = (IF s.ws_allowed THEN FALSE ELSE @),
                        !.has_digit = TRUE]
    ELSE Return(s, _string)

\* switch (in[i]), then i++ unless the case returned
Switch(s, g) ==
    LET b == s.in[s.i + 1]
        t == IF b = SPACE THEN case_space(s, g)
             ELSE IF b = MINUS THEN case_minus(s)
             ELSE IF b = DOT THEN case_dot(s)
             ELSE case_default(s)
    IN  IF t.pc = "returned" THEN t ELSE [t EXCEPT !.i = @ + 1]

\* After the loop: no non-numeric, non-whitespace byte was found.
AfterLoop(s) ==
    IF s.has_digit
    THEN IF s.prob_float THEN Return(s, _float) ELSE Return(s, _int)
    ELSE Return(s, _null)

\* if (in.size() == 0) return _null; and the locals' initializers
DataTypeEnter ==
    /\ scan.pc = "call"
    /\ scan' = IF Len(scan.in) = 0
                THEN [Locals(scan.in) EXCEPT !.pc = "returned", !.result = _null]
                ELSE Locals(scan.in)
    /\ UNCHANGED <<objectVars, guess>>

\* One round of  for (size_t i = 0, ilen = in.size(); i < ilen; i++)
DataTypeByte ==
    /\ scan.pc = "loop"
    /\ scan.i < Len(scan.in)
    /\ \E g \in BOOLEAN : scan' = Switch(scan, g)
    /\ UNCHANGED <<objectVars, guess>>

\* The loop is over.
DataTypeExit ==
    /\ scan.pc = "loop"
    /\ scan.i >= Len(scan.in)
    /\ scan' = AfterLoop(scan)
    /\ UNCHANGED <<objectVars, guess>>

InitDataType ==
    /\ NoReader
    /\ \E in \in Texts : scan = [pc |-> "call", in |-> in]
    /\ guess = NoCall

NextDataType == DataTypeEnter \/ DataTypeByte \/ DataTypeExit

SpecDataType == InitDataType /\ [][NextDataType]_vars

(***************************************************************************)
(* guess_format(filename): CSVGuesser::guess_delim, first_guess and        *)
(* second_guess.  Every candidate delimiter is tried by a reader of its    *)
(* own over the first lines of the file.                                   *)
(***************************************************************************)
TAB == "\t"
\* std::vector<char> delims = { ',', '|', '\t', ';', '^' }
delims == <<delimiter, "|", TAB, ";", "^">>

\* The line budget of a guessing reader (read_csv(filename, 100)), scaled.
GuessLines == 4
\* The cap of first_guess on correct_rows (std::min(correct_rows, 100)),
\* scaled with the line budget.
RowCap == 4
\* first_guess is content with more rows than this (max_rows > 10), scaled.
FewRows == 1
\* ... and with more columns than this (max_cols > 2).
FewCols == 2

\* Most lines of a file tried.
MaxGuessFileLines == 4

\* The lines the files tried are made of: a line without any candidate
\* delimiter, lines of two and three fields under '|' and of three under
\* ',', and a line of two records parted by a bare CR.
GuessLineKinds ==
    { <<"a">>,
      <<"a", "|", "a">>,
      <<"a", "|", "a", "|", "a">>,
      <<"a", delimiter, "a", delimiter, "a">>,
      <<"a", CR, "a">> }

RECURSIVE GuessFilesOf(_)
GuessFilesOf(n) ==
    IF n = 0 THEN {<<>>}
    ELSE {l \o <<LF>> \o f : l \in GuessLineKinds, f \in GuessFilesOf(n - 1)}

GuessFiles == UNION {GuessFilesOf(n) : n \in 0..MaxGuessFileLines}

\* The reader's delimiter is d: the bytes of s as a reader whose delimiter
\* is DEFAULT_CSV's sees them (d for the delimiter, a comma that is no
\* delimiter for a plain byte).
RECURSIVE AsDelim(_, _)
AsDelim(s, d) ==
    IF s = <<>> THEN <<>>
    ELSE <<IF Head(s) = d THEN delimiter
           ELSE IF Head(s) = delimiter THEN "c"
           ELSE Head(s)>> \o AsDelim(Tail(s), d)

\* The loop of read_csv with a budget of n lines from offset at on: the
\* bytes it gathers and whether it met the end of the file.  The files
\* tried are shorter than the size at which the buffer is handed over, so
\* the bytes reach feed in one chunk.
RECURSIVE ReadLines(_, _, _, _)
ReadLines(file, at, n, acc) ==
    IF ~(n <= -1 \/ n > 0) THEN [bytes |-> acc, eof |-> FALSE]
    ELSE LET line == fgets(file, at)
         IN  IF line = <<>> THEN [bytes |-> acc, eof |-> TRUE]
             ELSE IF Last(line) # LF /\ at + Len(line) = Len(file)
             THEN [bytes |-> acc \o line, eof |-> TRUE]
             ELSE ReadLines(file, at + Len(line), n - 1, acc \o line)

\* CSVReader guesser(filename, {}, format) and Guesser guess(format);
\* guess.read_csv(filename, 100), with format = DEFAULT_CSV but for its
\* delimiter d: the reader once read_csv has returned.
GuessReader(file, d) ==
    LET got == ReadLines(file, 0, GuessLines, <<>>)
        p == feed(NewReader(DEFAULT_CSV, <<>>, <<>>), AsDelim(got.bytes, d), <<>>)
    IN  IF got.eof THEN end_feed(p, <<>>) ELSE p

\* CSVGuesser::Guesser::bad_row_handler keeps row_tally (how many rejected
\* records had each size) and row_when (row_num + 1 at the first of each
\* size); both start as { { 0, 0 } }.
TallySizes(p) == {0} \cup {Len(p.bad_rows[j]) : j \in 1..Len(p.bad_rows)}

row_tally(p) ==
    [k \in TallySizes(p) |->
        Cardinality({j \in 1..Len(p.bad_rows) : Len(p.bad_rows[j]) = k})]

row_when(p) ==
    [k \in TallySizes(p) |->
        LET J == {j \in 1..Len(p.bad_rows) : Len(p.bad_rows[j]) = k}
        IN  IF J = {} THEN 0
            ELSE p.bad_when[CHOOSE j \in J : \A i \in J : j <= i]]

\* std::max_element over row_tally by count: an unordered_map is walked in
\* no specified order, so any size of greatest count may be the result.
MaxElements(tally) ==
    {k \in DOMAIN tally : \A j \in DOMAIN tally : tally[j] <= tally[k]}

Min(a, b) == IF a < b THEN a ELSE b

\* CSVGuesser guesser(filename) at the call guesser.guess_delim(); won is
\* the history of the candidate that last took the lead in second_guess.
NewGuesser(file) ==
    [pc |-> "first", file |-> file, i |-> 0,
     current_delim |-> delimiter, max_rows |-> 0, max_cols |-> 0,
     delim |-> "unset", header_row |-> 0,
     max_rlen |-> 0, header |-> 0, won |-> "none"]

\* A faulty round of first_guess: a candidate with at least as many columns
\* takes the lead (>= for >).
first_guess_round_LastWins(s) ==
    LET d == delims[s.i + 1]
        guesser == GuessReader(s.file, d)
        temp_rows == Min(guesser.correct_rows, RowCap)
        t == [s EXCEPT !.i = @ + 1]
    IN  IF guesser.row_num >= s.max_rows
            /\ Len(get_col_names(guesser)) >= s.max_cols
        THEN [t EXCEPT !.max_rows = temp_rows,
                       !.max_cols = Len(get_col_names(guesser)),
                       !.current_delim = d]
        ELSE t

\* One round of first_guess's loop over delims.
first_guess_round(s) ==
    LET d == delims[s.i + 1]
        guesser == GuessReader(s.file, d)
        temp_rows == Min(guesser.correct_rows, RowCap)
        t == [s EXCEPT !.i = @ + 1]
    IN  IF guesser.row_num >= s.max_rows
            /\ Len(get_col_names(guesser)) > s.max_cols
        THEN [t EXCEPT !.max_rows = temp_rows,
                       !.max_cols = Len(get_col_names(guesser)),
                       !.current_delim = d]
        ELSE t

FirstGuessRound ==
    /\ guess.pc = "first"
    /\ guess.i < Len(delims)
    /\ guess' = first_guess_round(guess)
    /\ UNCHANGED <<objectVars, scan>>

\* this->delim = current_delim; return (max_rows > 10 && max_cols > 2);
\* and guess_delim's  if (!first_guess()) second_guess();
FirstGuessReturn ==
    /\ guess.pc = "first"
    /\ guess.i = Len(delims)
    /\ guess' = [guess EXCEPT
                    !.delim = guess.current_delim,
                    !.i = 0,
                    !.pc = IF guess.max_rows > FewRows /\ guess.max_cols > FewCols
                           THEN "return" ELSE "second"]
    /\ UNCHANGED <<objectVars, scan>>

\* One round of second_guess's loop over delims, max being the size that
\* std::max_element designates.
second_guess_round(s, max) ==
    LET d == delims[s.i + 1]
        guesser == GuessReader(s.file, d)
        t == [s EXCEPT !.i = @ + 1]
    IN  IF row_tally(guesser)[max] > Len(guesser.records) /\ max > s.max_rlen
        THEN [t EXCEPT !.max_rlen = max,
                       !.header = row_when(guesser)[max],
                       !.won = d]
        ELSE t

SecondGuessRound ==
    /\ guess.pc = "second"
    /\ guess.i < Len(delims)
    /\ \E max \in MaxElements(row_tally(GuessReader(guess.file, delims[guess.i + 1]))) :
            guess' = second_guess_round(guess, max)
    /\ UNCHANGED <<objectVars, scan>>

\* this->header_row = header;
SecondGuessReturn ==
    /\ guess.pc = "second"
    /\ guess.i = Len(delims)
    /\ guess' = [guess EXCEPT !.header_row = guess.header, !.pc = "return"]
    /\ UNCHANGED <<objectVars, scan>>

\* return { guesser.delim, '"', guesser.header_row };
GuessFormatReturn ==
    /\ guess.pc = "return"
    /\ guess' = [guess EXCEPT !.pc = "returned"]
    /\ UNCHANGED <<objectVars, scan>>

\* The CSVFormat guess_format returns.
GuessedFormat == [delim |-> guess.delim, header |-> guess.header_row]

InitGuess ==
    /\ NoReader
    /\ scan = NoCall
    /\ \E file \in GuessFiles : guess = NewGuesser(file)

NextGuess ==
    \/ FirstGuessRound
    \/ FirstGuessReturn
    \/ SecondGuessRound
    \/ SecondGuessReturn
    \/ GuessFormatReturn

SpecGuess == InitGuess /\ [][NextGuess]_vars

(***************************************************************************)
(* Properties.                                                             *)
(***************************************************************************)
Hdr1 == <<"a", LF>>
Hdr2 == <<"a", delimiter, "a", LF>>

\* What a caller can observe of a reader once end_feed has returned.
Observable(p) ==
    [col_names |-> get_col_names(p), records |-> p.records,
     row_num |-> p.row_num, correct_rows |-> p.correct_rows]

\* Every index of the subset is an index of the column names: no read of the
\* reader went outside a vector.
InRange(p) == \A k \in 1..Len(p.subset) : p.subset[k] < Len(p.col_names)

\* feed(B) once, then end_feed(), on a freshly constructed reader.
WholeFeed(g) ==
    end_feed(feed(NewReader(config.format, config.subset, g), input, g), g)

\* C1: however the input is cut into chunks, feeding the chunks and then
\* calling end_feed leaves the same column names, rows, row_num and
\* correct_rows as feeding the whole input in one call.
C1_ChunkingTransparent ==
    (phase = "ended" /\ ret = "none" /\ InRange(reader)) =>
        Observable(reader) = Observable(WholeFeed(<<>>))

\* C2: a quote that is the first byte of a field opens a quoted field and is
\* not emitted, after a delimiter and at the start of a record alike: fed in
\* one call after the header a,a the record "x",a is the row (x, a) and the
\* record a,"x" is the row (a, x).
C2_LeadingQuoteOpensField ==
    (phase = "ended" /\ ret = "none" /\ feed_calls = 1
        /\ config.format = DEFAULT_CSV /\ config.subset = <<>>) =>
        \A x \in QuotedTexts :
            /\ input = Hdr2 \o QuotedFirst(x) => reader.records = << <<x, <<"a">> >> >>
            /\ input = Hdr2 \o QuotedSecond(x) => reader.records = << << <<"a">>, x>> >>

\* C3: while a quoted field is open, a delimiter, CR or LF byte is appended
\* to the current field and changes nothing else of the reader: no new field,
\* no finalized record, row_num, correct_rows and the queue as they were.
C3_QuotedSeparatorsLiteral ==
    [][(/\ phase = "feeding"
        /\ reader.quote_escape
        /\ pos' = pos + 1
        /\ input[pos + 1] \in {delimiter, CR, LF})
          => reader' = [reader EXCEPT
                            !.record_buffer = AppendBack(@, input[pos + 1]),
                            !.fed = Append(@, input[pos + 1])]]_vars

\* A delimiter, CR or LF has just been consumed inside an open quoted field.
C3_Witness ==
    /\ phase = "feeding" /\ pos > 0
    /\ reader.quote_escape
    /\ \E b \in {delimiter, CR, LF} :
          /\ input[pos] = b
          /\ Last(reader.record_buffer) # <<>>
          /\ Last(Last(reader.record_buffer)) = b

\* C4: in every quoted field, the first field of a record included, two
\* consecutive quotes yield one quote of the field's text and do not close
\* the field: "a""a""",a is the row (a"a", a) and a,"a""a""" the row
\* (a, a"a").
C4_DoubledQuoteCollapses ==
    (phase = "ended" /\ ret = "none" /\ feed_calls = 1
        /\ config.format = DEFAULT_CSV /\ config.subset = <<>>) =>
        LET t == <<"a", quote_char, "a", quote_char>>
        IN  /\ input = Hdr2 \o DoubledFirst => reader.records = << <<t, <<"a">> >> >>
            /\ input = Hdr2 \o DoubledSecond => reader.records = << << <<"a">>, t>> >>

\* The slots of the queue that read_row has not handed out.
Pending(p) ==
    IF p.current_row_set /\ ~p.dangling
    THEN (p.current_row + 1)..Len(p.records)
    ELSE 1..Len(p.records)

WidthOk(r) ==
    /\ Len(r) = Len(get_col_names(reader))
    /\ config.subset = <<>> => Len(r) = Len(reader.col_names)
    /\ config.subset # <<>> => Len(r) = Len(config.subset)

\* C5 as stated: every row in the output queue is as wide as the column
\* names when no subset is configured and as wide as the subset when one
\* is; either way as wide as get_col_names().
C5_RowWidth_EverySlot ==
    \A k \in 1..Len(reader.records) : WidthOk(reader.records[k])

\* C5, amended: the same of every row in the output queue that read_row has
\* not handed out yet (read_row swaps the caller's vector into the slot of
\* the row it hands out).
C5_RowWidth ==
    \A k \in Pending(reader) : WidthOk(reader.records[k])

\* A row of a two-column input, projected on one column, has been handed
\* out and another one is still queued.
C5_Witness ==
    /\ config.subset = <<0>>
    /\ Len(reader.col_names) = 2
    /\ Len(delivered) >= 1
    /\ Pending(reader) # {}
    /\ ret = "true"

IsPrefix(s, t) == Len(s) <= Len(t) /\ s = SubSeq(t, 1, Len(s))
IsSuffix(s, t) == Len(s) <= Len(t) /\ s = SubSeq(t, Len(t) - Len(s) + 1, Len(t))
Increasing(s) == \A i, j \in 1..Len(s) : i < j => s[i] < s[j]

\* C6: the bytes reach the parser in the order of the input, in push mode
\* and through the worker's queue alike; rows are queued in the order their
\* records are finalized; and read_row hands the queued rows out first in,
\* first out.
C6_InputOrder ==
    /\ IsPrefix(reader.fed, input)
    /\ Increasing(reader.all_src)
    /\ IsSuffix(reader.row_src, reader.all_src)
    /\ IsPrefix(delivered, reader.all_src)
    /\ Increasing(delivered)

\* A file reader has handed out three rows, the later ones parsed by lazy
\* reads, from a file read in more than one chunk.
C6_Witness ==
    /\ mode = "file"
    /\ Len(delivered) >= 3
    /\ Len(input) > 2 * FlushBytes
    /\ ret = "true"

(***************************************************************************)
(* CSVRow: one text and the offsets at which its fields end.               *)
(***************************************************************************)
RECURSIVE Flatten(_)
Flatten(rec) == IF rec = <<>> THEN <<>> ELSE Head(rec) \o Flatten(Tail(rec))

\* CSVRow(row_str, splits) for the fields of rec
CSVRow(rec) ==
    [row_str |-> Flatten(rec),
     splits |-> [i \in 1..Len(rec) |-> Len(Flatten(SubSeq(rec, 1, i)))]]

\* CSVRow::size
size(r) == Len(r.splits)

\* CSVRow::get_string_view(n): field n lies between split n - 1 and split n
get_string_view(r, n) ==
    SubSeq(r.row_str, (IF n = 0 THEN 0 ELSE r.splits[n]) + 1, r.splits[n + 1])

\* for (it = begin(); it != end(); ++it): the fields *it in turn
RECURSIVE ForwardFrom(_, _)
ForwardFrom(r, it) ==
    IF it = size(r) THEN <<>>
    ELSE <<get_string_view(r, it)>> \o ForwardFrom(r, it + 1)

\* for (it = rbegin(); it != rend(); ++it): a reverse iterator at base b
\* designates field b - 1
RECURSIVE ReverseFrom(_, _)
ReverseFrom(r, b) ==
    IF b = 0 THEN <<>>
    ELSE <<get_string_view(r, b - 1)>> \o ReverseFrom(r, b - 1)

Reversed(s) == [i \in 1..Len(s) |-> s[Len(s) + 1 - i]]

\* The pieces of s between the occurrences of byte b.
RECURSIVE SplitOn(_, _)
SplitOn(s, b) ==
    IF \A i \in 1..Len(s) : s[i] # b THEN <<s>>
    ELSE LET k == CHOOSE i \in 1..Len(s) : s[i] = b /\ \A j \in 1..(i - 1) : s[j] # b
         IN  <<SubSeq(s, 1, k - 1)>> \o SplitOn(SubSeq(s, k + 1, Len(s)), b)

\* An input of plain bytes, delimiters and LF only.
Plain(s) == \A i \in 1..Len(s) : s[i] \in {"a", delimiter, LF}

\* The records of a plain input after its first, each as its fields, that
\* have as many fields as the first.
PlainRows(s) ==
    LET lines == SplitOn(s, LF)
        fields == [i \in 1..Len(lines) |-> SplitOn(lines[i], delimiter)]
        Wide(f) == Len(f) = Len(fields[1])
    IN  SelectSeq(Tail(fields), Wide)

\* C7: in every emitted row field i is the i-th field of its record; going
\* through the row forward visits the fields 0..n-1 in that order, in
\* reverse n-1..0, and begin() + k designates field k.
C7_FieldOrder ==
    (mode = "push" /\ phase = "ended" /\ ret = "none" /\ Plain(input)
        /\ config.format.header = 0 /\ config.format.col_names = <<>>
        /\ config.subset = <<>>) =>
        /\ reader.records = PlainRows(input)
        /\ \A k \in 1..Len(reader.records) :
              LET rec == reader.records[k]
                  r == CSVRow(rec)
              IN  /\ size(r) = Len(rec)
                  /\ ForwardFrom(r, 0) = rec
                  /\ ReverseFrom(r, size(r)) = Reversed(rec)
                  /\ \A i \in 0..(size(r) - 1) : get_string_view(r, 0 + i) = rec[i + 1]

\* A row of two different fields came out of a plain input.
C7_Witness ==
    /\ mode = "push" /\ phase = "ended" /\ ret = "none" /\ Plain(input)
    /\ config = [format |-> DEFAULT_CSV, subset |-> <<>>]
    /\ \E k \in 1..Len(reader.records) :
          /\ Len(reader.records[k]) = 2
          /\ reader.records[k][1] # reader.records[k][2]

\* A step that finalizes the record in flight as it stands: end_feed, or a
\* feed of one CR or LF byte outside a quoted field.
FinalizesInFlight ==
    /\ phase = "feeding"
    /\ \/ phase' = "ended"
       \/ /\ pos' = pos + 1
          /\ ~reader.quote_escape
          /\ input[pos + 1] \in {CR, LF}

C9_StrictRaises ==
    [][(/\ FinalizesInFlight
        /\ config.format.strict
        /\ reader.row_num > reader.header_row
        /\ reader.record_buffer # << <<>> >>
        /\ Len(reader.record_buffer) # Len(reader.col_names))
          => error' = "MalformedRow"]_vars

\* With header index H >= 0 and no explicit names: while no more than H
\* records are finalized nothing is installed, queued, reported or counted,
\* and no queued row comes from a record up to H.
C10_State ==
    (config.format.col_names = <<>> /\ config.format.header >= 0) =>
        LET H == config.format.header
        IN  /\ reader.n_final <= H =>
                /\ reader.col_names = <<>>
                /\ reader.records = <<>>
                /\ reader.bad_rows = <<>>
                /\ reader.correct_rows = 0
                /\ reader.row_num = reader.n_final
            /\ \A k \in 1..Len(reader.row_src) : reader.row_src[k] > H

\* C10: with header index H >= 0 and no explicit names, nothing is checked,
\* queued or installed before record H; record H becomes the column names
\* and is not queued; only records after it are queued.
C10_HeaderRow ==
    C10_State /\
    [][C10_State' /\
       ((/\ FinalizesInFlight
         /\ config.format.col_names = <<>>
         /\ reader.n_final = config.format.header)
          => /\ reader'.col_names = reader.record_buffer
             /\ reader'.records = <<>>
             /\ reader'.bad_rows = <<>>)]_vars

\* With H = 1: record 0 had a field count of its own, record 1 gave the
\* names and a later record is queued.
C10_Witness ==
    /\ config.format.header = 1 /\ config.format.col_names = <<>>
    /\ Len(input) >= 2 /\ SubSeq(input, 1, 2) = Hdr1
    /\ Len(reader.col_names) = 2
    /\ Len(reader.records) >= 1

\* The constructor has returned.
Constructed == phase \in {"feeding", "ended", "ready"}

\* C11: a reader constructed, from memory or from a file, with a Format
\* whose col_names is not empty has exactly those column names, whatever
\* it has read; no record of the input is taken as the header: every
\* finalized record was either queued or rejected as data.
C11_ExplicitNames ==
    (Constructed /\ config.format.col_names # <<>>) =>
        /\ reader.col_names = config.format.col_names
        /\ config.subset = <<>> => get_col_names(reader) = config.format.col_names
        /\ reader.header_row = -1
        /\ Len(reader.all_src) + Len(reader.bad_rows) = reader.n_final

\* No quote byte in s.
NoQuote(s) == \A i \in 1..Len(s) : s[i] # quote_char

\* s with every record terminator (CR LF, CR or LF) written as LF.
RECURSIVE Normalize(_)
Normalize(s) ==
    IF s = <<>> THEN <<>>
    ELSE IF Head(s) = CR
    THEN IF Len(s) >= 2 /\ s[2] = LF
         THEN <<LF>> \o Normalize(SubSeq(s, 3, Len(s)))
         ELSE <<LF>> \o Normalize(Tail(s))
    ELSE <<Head(s)>> \o Normalize(Tail(s))

\* The fields of the last line of an unquoted input.
TrailingRecord(s) == SplitOn(Last(SplitOn(Normalize(s), LF)), delimiter)

\* An unquoted, non-empty input whose last record has no terminator, fed
\* to a reader with header index 0, no explicit names and no subset.
Unterminated ==
    /\ mode = "push" /\ phase = "ended" /\ ret = "none"
    /\ config = [format |-> DEFAULT_CSV, subset |-> <<>>]
    /\ NoQuote(input) /\ input # <<>> /\ Last(input) \notin {CR, LF}

\* C12: when the input ends with a record that has no terminator, that
\* record has been finalized exactly once when end_feed has returned: it
\* is the last finalized record and no record is left in flight; it is the
\* last row of the queue when its field count is that of the column names
\* and goes to the bad-row hook otherwise; fed in one call, the input
\* yields exactly its well-formed rows.
C12_TrailingRecord ==
    Unterminated =>
        LET lines == SplitOn(Normalize(input), LF)
            last == TrailingRecord(input)
        IN  /\ reader.record_buffer = << <<>> >>
            /\ Len(lines) = 1 => reader.col_names = last /\ reader.records = <<>>
            /\ (Len(lines) > 1 /\ Len(last) = Len(reader.col_names)) =>
                    /\ reader.records # <<>>
                    /\ Last(reader.records) = last
                    /\ Last(reader.row_src) = reader.n_final - 1
            /\ (Len(lines) > 1 /\ Len(last) # Len(reader.col_names)) =>
                    /\ reader.bad_rows # <<>>
                    /\ Last(reader.bad_rows) = last
                    /\ \A k \in 1..Len(reader.row_src) :
                          reader.row_src[k] < reader.n_final - 1
            /\ feed_calls <= 1 =>
                    /\ reader.n_final = Len(lines)
                    /\ reader.records = PlainRows(Normalize(input))

\* a,a LF a,a CRLF ,a CRLF a,  has given three rows, the unterminated one
\* last.
C12_Witness ==
    /\ Unterminated
    /\ input = Hdr2 \o ThreeRows
    /\ Len(reader.records) = 3
    /\ Last(reader.records) = << <<"a">>, <<>> >>

\* C13: for a reader with header index 0 and no explicit column names,
\* end_feed after the empty input (no byte was ever fed) leaves no row in
\* the queue and an empty list of column names.
C13_EmptyInput ==
    (/\ mode = "push" /\ phase = "ended" /\ ret = "none"
     /\ config.format.header = 0 /\ config.format.col_names = <<>>
     /\ input = <<>>) =>
        /\ reader.records = <<>>
        /\ get_col_names(reader) = <<>>

\* An unquoted input that is one non-empty header line, with or without
\* its terminator, fed in one call to a reader with header index 0, no
\* explicit names and no subset.
HeaderOnly ==
    /\ mode = "push" /\ phase = "ended" /\ ret = "none" /\ feed_calls <= 1
    /\ config = [format |-> DEFAULT_CSV, subset |-> <<>>]
    /\ NoQuote(input)
    /\ LET lines == SplitOn(Normalize(input), LF)
       IN  /\ lines[1] # <<>>
           /\ Len(lines) = 1 \/ (Len(lines) = 2 /\ lines[2] = <<>>)

\* C14: an input that is only a header row, of one column or more, with or
\* without a trailing record terminator, leaves after end_feed no row in
\* the queue and the header's fields as the column names.
C14_HeaderOnly ==
    HeaderOnly =>
        /\ reader.records = <<>>
        /\ reader.correct_rows = 0
        /\ get_col_names(reader) = SplitOn(SplitOn(Normalize(input), LF)[1], delimiter)

\* feed(s) once, then end_feed(), on a freshly constructed reader.
WholeFeedOf(s, g) ==
    end_feed(feed(NewReader(config.format, config.subset, g), s, g), g)

\* s with every LF written as term.
RECURSIVE Recode(_, _)
Recode(s, term) ==
    IF s = <<>> THEN <<>>
    ELSE (IF Head(s) = LF THEN term ELSE <<Head(s)>>) \o Recode(Tail(s), term)

\* Inputs whose records are terminated by LF and hold no CR or LF of their
\* own: unquoted texts, and a header line followed by one record with a
\* quoted field.
LFRecords(s) ==
    /\ \A i \in 1..Len(s) : s[i] # CR
    /\ \/ NoQuote(s)
       \/ \E h \in HeaderLines, x \in QuotedTexts :
             s \in {h \o QuotedFirst(x), h \o QuotedSecond(x),
                    h \o DoubledFirst, h \o DoubledSecond}

\* C15: a sequence of records fed in one call with its terminators written
\* as LF, as CR or as CR LF leaves the same number of rows in the queue
\* and the same correct_rows in all three encodings.
C15_TerminatorEncodings ==
    (mode = "push" /\ phase = "ended" /\ ret = "none" /\ feed_calls <= 1
        /\ LFRecords(input)) =>
        \A term \in {<<CR>>, <<CR, LF>>} :
            LET other == WholeFeedOf(Recode(input, term), <<>>)
            IN  /\ Len(other.records) = Len(reader.records)
                /\ other.correct_rows = reader.correct_rows

\* A one-column header and three LF-terminated records, two of them
\* malformed, gave two rows (the record a and the blank one end_feed
\* finalizes), and so does the CR LF encoding.
C15_Witness ==
    /\ mode = "push" /\ phase = "ended" /\ ret = "none" /\ feed_calls = 1
    /\ config = [format |-> DEFAULT_CSV, subset |-> <<>>]
    /\ input = Hdr1 \o MixedRows
    /\ reader.correct_rows = 2
    /\ Len(WholeFeedOf(Recode(input, <<CR, LF>>), <<>>).records) = 2

\* C16: in non-strict mode a quote inside an unquoted field (not its first
\* byte, no quoted field open) is a byte of the field's text: after the
\* header a, a record made of the byte a followed by quotes and a's is a
\* row whose one field is that text.
C16_StrayQuoteLiteral ==
    (/\ mode = "push" /\ phase = "ended" /\ ret = "none" /\ feed_calls <= 1
     /\ config = [format |-> DEFAULT_CSV, subset |-> <<>>]
     /\ Len(input) > Len(Hdr1) /\ SubSeq(input, 1, Len(Hdr1)) = Hdr1) =>
        LET b == SubSeq(input, Len(Hdr1) + 1, Len(input))
        IN  (Head(b) = "a" /\ \A i \in 1..Len(b) : b[i] \in {"a", quote_char})
                => reader.records = << <<b>> >>

\* A step on which a call of read_row returns.
ReadRowReturns ==
    \/ rpc = "returned" /\ caller = "read_row"
    \/ /\ rpc = "idle" /\ rpc' = "idle" /\ phase \in {"ended", "ready"}
       /\ iter.pc = "none" /\ iter'.pc = "none"

\* The file is closed (or there never was one) and read_row has handed out
\* every row of the queue.
Drained == infile = "null" /\ Pending(reader) = {}

\* C17: read_row returns true only when it hands out one row the parser
\* queued, and false exactly when the source is drained and no row is left
\* to hand out, also after a lazy read that gave no row; once it has
\* returned false it returns false ever after; a reader without a file
\* never starts a read.
C17_ReadRowContract ==
    [][/\ ReadRowReturns =>
            /\ ret' \in {"true", "false"}
            /\ ret' = "true" =>
                  \E j \in 1..Len(reader.records) :
                      /\ row' = reader.records[j]
                      /\ delivered' = Append(delivered, reader.row_src[j])
            /\ ret' = "false" <=> Drained
       /\ ret = "false" => ret' = "false"
       /\ mode = "push" => rpc' = "idle" /\ infile' = "null"]_vars

\* C18: a reader over a file (no explicit names) hands out, call after call
\* of read_row until the first that returns false, exactly the rows that
\* one feed of the whole file followed by end_feed queues, each once and
\* in that order: every call that returns true hands out the next of these
\* rows, and when a call returns false all of them have been handed out.
C18_FileRowsAsWholeFeed ==
    [][(/\ mode = "file" /\ config.format.col_names = <<>>
        /\ ReadRowReturns
        /\ ret # "false"
        /\ rpc = "returned" \/ ~reader.dangling) =>
          LET W == WholeFeedOf(input, <<>>)
          IN  /\ ret' = "true" =>
                    /\ Len(delivered) < Len(W.all_src)
                    /\ delivered' = Append(delivered, W.all_src[Len(delivered) + 1])
              /\ ret' = "false" => delivered = W.all_src]_vars

\* C19: the loop from begin() to end() visits every data row of the source
\* once, in input order: the rows the parser queued for a reader fed from
\* memory, the rows of the whole file for a reader over a file, read on
\* when the loop gets past the rows buffered so far; the loop ends only
\* when the source is drained.
C19_IterationVisitsAll ==
    config.format.col_names = <<>> =>
        LET rows == IF mode = "push" THEN reader.all_src
                    ELSE WholeFeedOf(input, <<>>).all_src
        IN  /\ IsPrefix(visited, rows)
            /\ iter.pc = "done" => visited = rows /\ infile = "null"

\* The projection of a vector on the subset mask M.
Project(v, M) == [i \in 1..Len(M) |-> v[M[i] + 1]]

\* With a subset mask of column indices configured, get_col_names() is the
\* projection of the column names on the mask.
C20_Names ==
    (config.subset # <<>> /\ reader.col_names # <<>> /\ InRange(reader)) =>
        get_col_names(reader) = Project(reader.col_names, config.subset)

\* C20: with a subset mask M of column indices configured, field i of
\* every queued row is field M[i] of the record it was accepted from and
\* get_col_names()[i] is the column name at index M[i]; a record is
\* accepted exactly when its full field count is the full number of
\* column names.
C20_SubsetProjection ==
    C20_Names /\
    [][C20_Names' /\
       ((/\ FinalizesInFlight
         /\ config.subset # <<>> /\ InRange(reader)
         /\ reader.row_num > reader.header_row) =>
            IF Len(reader.record_buffer) = Len(reader.col_names)
            THEN /\ reader'.records =
                        Append(reader.records,
                               Project(reader.record_buffer, config.subset))
                 /\ reader'.correct_rows = reader.correct_rows + 1
            ELSE /\ reader'.records = reader.records
                 /\ reader'.correct_rows = reader.correct_rows)]_vars

\* Under the names (x, y) and the mask (1, 0) a record of two different
\* fields was queued with its fields swapped.
C20_Witness ==
    /\ config = [format |-> NAMED_CSV, subset |-> <<1, 0>>]
    /\ get_col_names(reader) = << <<"y">>, <<"x">> >>
    /\ input = <<delimiter, "a">>
    /\ phase = "ended" /\ ret = "none" /\ iter.pc = "none"
    /\ reader.records = << << <<"a">>, <<>> >> >>

(***************************************************************************)
(* helpers::data_type: what a text is classified as.                       *)
(***************************************************************************)
\* How many bytes of the text t are the byte b.
Count(t, b) == Cardinality({k \in 1..Len(t) : t[k] = b})

\* The call of data_type has returned.
Classified == scan.pc = "returned"

\* C21: data_type returns one of Null, String, Integer, Float for every
\* text and reads no byte outside the text; the empty text and a text of
\* spaces only are Null; a second decimal point or a byte that is no
\* space, minus, point or digit gives String; a text that is not String
\* is Null without a digit, Integer with a digit and no decimal point,
\* Float with a digit and a decimal point.
C21_Classification ==
    /\ scan.pc = "loop" => scan.i <= Len(scan.in) /\ ~scan.outside
    /\ Classified =>
        LET t == scan.in
        IN  /\ scan.result \in DataType
            /\ ~scan.outside
            /\ Count(t, SPACE) = Len(t) => scan.result = _null
            /\ (Count(t, DOT) >= 2 \/ Count(t, LETTER) >= 1) =>
                    scan.result = _string
            /\ scan.result # _string =>
                    scan.result =
                        IF Count(t, DIGIT) = 0 THEN _null
                        ELSE IF Count(t, DOT) = 0 THEN _int
                        ELSE _float

\* The text "-1.1" was classified Float.
C21_Witness ==
    /\ Classified
    /\ scan.in = <<MINUS, DIGIT, DOT, DIGIT>>
    /\ scan.result = _float

\* C22: once a space has followed a digit, a later digit makes the text
\* String; a space right after a byte that is neither digit nor space,
\* that byte coming after the first digit, makes the text String.
C22_SpacesArePadding ==
    Classified =>
        LET t == scan.in
            N == 1..Len(t)
        IN  /\ (\E j, l \in N : /\ j + 1 < l
                                /\ t[j] = DIGIT /\ t[j + 1] = SPACE
                                /\ t[l] = DIGIT) => scan.result = _string
            /\ (\E j, k \in N : /\ j < k - 1
                                /\ t[j] = DIGIT
                                /\ t[k - 1] \notin {DIGIT, SPACE}
                                /\ t[k] = SPACE) => scan.result = _string

\* C23: a text with a minus after a digit or after a decimal point, or
\* with two minus signs, is String.
C23_LeadingMinusOnly ==
    Classified =>
        LET t == scan.in
            N == 1..Len(t)
        IN  ((\E j, k \in N : j < k /\ t[j] \in {DIGIT, DOT} /\ t[k] = MINUS)
                \/ Count(t, MINUS) >= 2) => scan.result = _string

(***************************************************************************)
(* guess_format.                                                           *)
(***************************************************************************)
\* The score of the candidate d in first_guess: its correct rows, capped,
\* then its number of columns.
Score(d) ==
    LET guesser == GuessReader(guess.file, d)
    IN  <<Min(guesser.correct_rows, RowCap), Len(get_col_names(guesser))>>

LexGE(x, y) == x[1] > y[1] \/ (x[1] = y[1] /\ x[2] >= y[2])

\* C24: the delimiter first_guess selects has the greatest pair (correct
\* rows capped, column count) in lexicographic order among the candidates:
\* more correct rows win whatever the column counts, and the column count
\* only breaks ties in rows.
C24_FirstGuessLexicographic ==
    guess.pc \in {"second", "return", "returned"} =>
        \A k \in 1..Len(delims) : LexGE(Score(guess.delim), Score(delims[k]))

\* One line without candidate delimiter, then the header a|a|a, then two
\* rows of three '|'-delimited fields.
CommentedFile ==
    <<"a", LF, "a", "|", "a", "|", "a", LF, "a", "|", "a", "|", "a", LF,
      "a", "|", "a", "|", "a", LF>>

\* C25: when second_guess ran and a candidate took the lead in it, the
\* format guess_format returns has that candidate as its delimiter and, as
\* its header, the row at which the candidate's most frequent field count
\* first occurred; for a file of comment lines without a candidate
\* delimiter, then a header and rows delimited by '|', that is delim = '|'
\* and the header right after the comment lines.
C25_SecondGuessFormat ==
    (guess.pc = "returned" /\ guess.won # "none") =>
        /\ GuessedFormat.delim = guess.won
        /\ GuessedFormat.header =
                row_when(GuessReader(guess.file, guess.won))[guess.max_rlen]
        /\ guess.file = CommentedFile =>
                GuessedFormat = [delim |-> "|", header |-> 1]

(***************************************************************************)
(* Column lookup: get_col_pos, and a row's field by column name through    *)
(* internals::ColNames.                                                    *)
(***************************************************************************)
CSV_NOT_FOUND == -1

\* get_col_pos: std::find over the column names, the position of the first
\* occurrence (zero-based), -1 without one.
get_col_pos(names, col_name) ==
    LET I == {i \in 1..Len(names) : names[i] = col_name}
    IN  IF I = {} THEN -1
        ELSE (CHOOSE i \in I : \A j \in I : i <= j) - 1

\* internals::ColNames: the names in order and the mapping col_pos from a
\* name to its index, a later occurrence of a name replacing an earlier one.
ColNames(names) ==
    [col_names |-> names,
     col_pos |-> [n \in {names[i] : i \in 1..Len(names)} |->
                    (CHOOSE i \in 1..Len(names) :
                        /\ names[i] = n
                        /\ \A j \in 1..Len(names) : names[j] = n => j <= i) - 1]]

UnknownColumn == "UnknownColumn"

\* CSVRow::operator[](const std::string&)
FieldByName(r, cn, col_name) ==
    IF col_name \in DOMAIN cn.col_pos THEN r[cn.col_pos[col_name] + 1]
    ELSE UnknownColumn

\* CSVRow::operator[](size_t n)
FieldByIndex(r, n) == r[n + 1]

\* The names looked up: those of the reader and one it does not have.
LookedUp == {reader.col_names[i] : i \in 1..Len(reader.col_names)} \cup {<<"z">>}

\* C26: for every row of the reader and every name among its column
\* names, occurring once or more, the field looked up by the name is the
\* field at the index get_col_pos reports for the name; for a name that is
\* absent get_col_pos reports -1 and the lookup by name fails with
\* UnknownColumn.
C26_LookupByName ==
    (config.subset = <<>> /\ reader.col_names # <<>>) =>
        \A k \in 1..Len(reader.records) : \A n \in LookedUp :
            LET r == reader.records[k]
                cn == ColNames(reader.col_names)
                i == get_col_pos(reader.col_names, n)
            IN  Len(r) = Len(reader.col_names) =>
                    IF i = CSV_NOT_FOUND
                    THEN FieldByName(r, cn, n) = UnknownColumn
                    ELSE FieldByName(r, cn, n) = FieldByIndex(r, i)

(***************************************************************************)
(* read_csv: the file that cannot be opened.                               *)
(***************************************************************************)
\* C27: when the file cannot be opened, read_csv, called by the file
\* constructor, raises an error with no worker thread started and nothing
\* pushed on the feed queue; the feed queue, the output queue, row_num,
\* correct_rows and the column names are as they were before the call.
C27_OpenFailure ==
    /\ error = "runtime_error" =>
            /\ input = NoSuchFile
            /\ wpc = "none" /\ feed_buffer = <<>> /\ infile = "null"
    /\ [][(rpc = "call" /\ infile = "null" /\ input = NoSuchFile) =>
            /\ error' = "runtime_error"
            /\ wpc' = "none"
            /\ feed_buffer' = feed_buffer
            /\ reader' = reader]_vars

\* The constructor's read_csv failed on the file's name.
C27_Witness ==
    /\ mode = "file"
    /\ input = NoSuchFile
    /\ error = "runtime_error"
    /\ rpc = "thrown"
    /\ reader.records = <<>> /\ reader.row_num = 0 /\ reader.correct_rows = 0
    /\ get_col_names(reader) = <<>>

(***************************************************************************)
(* read_csv and its worker: the feed queue.                                *)
(***************************************************************************)
\* The chunks on the feed queue that the worker has not popped (the
\* termination signal is no chunk).
Unpopped == Cardinality({k \in 1..Len(feed_buffer) : feed_buffer[k] # nullptr})

\* A capacity of the feed queue: what a read_csv call with the constructor's
\* line budget can fill it to (InitialRows chunks and the remaining bits).
QueueCapacity == 3

\* C28: the feed queue never holds more than a fixed number of chunks the
\* worker has not popped, whatever the size of the file: read_csv's thread
\* pushes no chunk on a queue that holds that many.
C28_Backpressure ==
    /\ Unpopped <= QueueCapacity
    /\ [][Unpopped' > Unpopped => Unpopped < QueueCapacity]_vars

\* A call of read_csv is in progress.
InReadCsv == rpc \notin {"idle", "returned", "thrown"}

\* C29: with both threads scheduled fairly every call of read_csv comes to
\* its end; the worker does not stay waiting while the feed queue holds
\* something; when the call is over the worker has exited, the feed queue
\* is empty, and what the worker fed is the bytes read from the file, each
\* once and in the order they were read.
C29_ReadCsvTerminates ==
    /\ [](~InReadCsv /\ error = "none" =>
            /\ wpc = "none"
            /\ feed_buffer = <<>>
            /\ reader.fed = SubSeq(input, 1, fpos))
    /\ (rpc = "call") ~> ~InReadCsv
    /\ (wpc = "wait" /\ feed_buffer # <<>>) ~> (wpc # "wait")

\* A whole-file read_csv has returned: the worker fed the four lines that
\* reached it in two chunks and a last empty one, then met the
\* termination signal.
C29_Witness ==
    /\ mode = "read_csv"
    /\ rpc = "idle" /\ phase = "ready"
    /\ wpc = "none" /\ feed_buffer = <<>>
    /\ input = MixedRows
    /\ reader.fed = input
    /\ infile = "null"

\* read_csv is past worker.join() in this step.
Joins == rpc = "join" /\ rpc' # "join"

\* C30: read_csv calls end_feed() only once the worker is joined, and
\* exactly when the end of the file was met; the file is then closed.
\* When the line budget ended the read first, the reader and the file
\* handle stay as they are.  Nothing but that step of read_csv finalizes
\* a record outside the worker's feed, and read_csv is called on an open
\* file only, so the pipeline calls end_feed() at most once.
C30_EndFeedAtEof ==
    [][/\ Joins =>
            /\ wpc = "exited" /\ feed_buffer = <<>>
            /\ IF eof_flag
               THEN /\ \E g \in Garbage : reader' = end_feed(reader, g)
                    /\ infile = "open" /\ infile' = "null"
               ELSE /\ reader' = reader
                    /\ infile = "open" /\ infile' = "open"
       /\ (~Joins /\ wpc # "feed") => reader'.n_final = reader.n_final
       /\ (rpc # "call" /\ rpc' = "call") => infile = "open" /\ ~eof_flag
      ]_vars

\* The constructor's read ended on its line budget with the file open; the
\* read that read_row started met the end of the file, finalized the
\* record in flight and closed the file.
C30_Witness ==
    /\ mode = "file"
    /\ caller = "read_row" /\ rpc = "returned"
    /\ eof_flag /\ infile = "null"
    /\ input = <<"a", LF>> \o FileRows
    /\ reader.n_final = 5
    /\ fpos = Len(input)

(***************************************************************************)
(* The two threads of read_csv: who touches the feed queue and the parser. *)
(***************************************************************************)
\* The worker thread exists: it was started and is not joined yet.
WorkerExists == wpc # "none"

\* The step is one of the calling thread inside read_csv.
CallingThreadSteps == rpc' # rpc

\* C31: the thread that changes feed_buffer holds feed_lock, and so does
\* the thread that is at a statement reading it; while the worker runs,
\* the parser's members change only in the worker's call of feed and the
\* calling thread stays inside read_csv; a worker is started only when
\* the reader has none.
C31_Exclusion ==
    [][/\ feed_buffer' # feed_buffer =>
            feed_lock = (IF CallingThreadSteps THEN "reader" ELSE "worker")
       /\ wpc = "locked" => feed_lock = "worker"
       /\ rpc \in {"flush_locked", "final_locked"} => feed_lock = "reader"
       /\ (reader' # reader /\ WorkerExists /\ wpc # "exited") =>
            wpc = "feed" /\ ~CallingThreadSteps
       /\ WorkerExists =>
            rpc \in {"loop", "flush", "flush_locked", "final", "final_locked",
                     "join"}
       /\ (~WorkerExists' /\ WorkerExists) => rpc = "join" /\ wpc = "exited"
       /\ (WorkerExists' /\ ~WorkerExists) => rpc = "call"
      ]_vars

\* The worker holds feed_lock with a chunk in the queue while the calling
\* thread is at its last lock statement.
C31_Witness ==
    /\ wpc = "locked"
    /\ feed_lock = "worker"
    /\ rpc = "final"
    /\ feed_buffer # <<>>

(***************************************************************************)
(* Lookahead across the boundary of two chunks.                            *)
(***************************************************************************)
\* The caller feeds the one byte b next, the chunk before it having ended
\* with the byte a.
FeedsAfter(a, b) ==
    /\ mode = "push"
    /\ phase = "feeding"
    /\ pos >= 1
    /\ pos' = pos + 1
    /\ input[pos] = a
    /\ input[pos + 1] = b

\* C32: outside a quoted field, when a chunk ended with CR (which ended a
\* record) and the next chunk starts with LF, that LF finalizes no record:
\* nothing is queued and the bad-row hook is not called.
C32_SplitCRLF ==
    [][(FeedsAfter(CR, LF) /\ ~reader.quote_escape) =>
            /\ reader'.n_final = reader.n_final
            /\ reader'.all_src = reader.all_src
            /\ reader'.bad_rows = reader.bad_rows
      ]_vars

\* The one chunk fed so far ended with a quote that process_quote met
\* inside an open quoted field (the byte before it is no quote, so it was
\* not skipped as the second of a pair): the field is still open and the
\* quote is its last byte.
QuoteAtChunkEnd ==
    /\ mode = "push"
    /\ phase = "feeding"
    /\ feed_calls = 1
    /\ pos >= 2
    /\ input[pos] = quote_char
    /\ input[pos - 1] # quote_char
    /\ reader.quote_escape
    /\ Last(reader.record_buffer) # <<>>
    /\ Last(Last(reader.record_buffer)) = quote_char

\* The record in flight without the last byte of its last field.
DropLastByte(rb) == [rb EXCEPT ![Len(rb)] = SubSeq(@, 1, Len(@) - 1)]

\* C33: a quote met inside an open quoted field as the last byte of a
\* chunk is resolved by the first byte of the next chunk as if the two
\* bytes had come in one chunk; when it is the last byte of the whole
\* input, end_feed finalizes the record with the field closed there, the
\* quote not being part of the field's text.
C33_QuoteAtBoundary ==
    [][QuoteAtChunkEnd =>
        /\ pos' = pos + 1 =>
             \A g \in Garbage :
                InRange(reader') =>
                    reader' = feed(NewReader(config.format, config.subset, g),
                                   SubSeq(input, 1, pos + 1), g)
        /\ phase' = "ended" =>
             \A g \in Garbage :
                InRange(reader') =>
                    reader' = end_feed([reader EXCEPT
                                  !.record_buffer = DropLastByte(@),
                                  !.quote_escape = FALSE], g)
      ]_vars

(***************************************************************************)
(* write_record and the counters.                                          *)
(***************************************************************************)
\* A blank line: the record write_record leaves in flight, one empty field.
BlankRecord == << <<>> >>

\* C34: with column names known, no record that is one field short of
\* them (a blank line aside) is rejected: it is padded with one empty
\* field and queued, so the bad-row hook never sees such a record.
C34_PadOneShort ==
    reader.col_names # <<>> =>
        \A i \in 1..Len(reader.bad_rows) :
            reader.bad_rows[i] # BlankRecord =>
                Len(reader.bad_rows[i]) + 1 # Len(reader.col_names)

\* C35: whatever the caller does (feed, end_feed, read_csv, read_row, the
\* iterator loop), the column names change only when none are installed,
\* and then once for all: the step that installs them takes row_num past
\* the header index, and they are the same in every later state.
C35_NamesInstalledOnce ==
    [][(\/ reader'.col_names # reader.col_names
        \/ get_col_names(reader') # get_col_names(reader)) =>
            /\ reader.col_names = <<>>
            /\ get_col_names(reader) = <<>>
            /\ reader'.col_names # <<>>
            /\ reader.row_num <= reader.header_row
            /\ reader'.row_num > reader.header_row
      ]_vars

\* Names were installed from the header record, and accepted and
\* malformed records have followed.
C35_Witness ==
    /\ config.format.col_names = <<>>
    /\ reader.col_names # <<>>
    /\ reader.correct_rows >= 1
    /\ Len(reader.bad_rows) >= 2
    /\ BlankRecord \in {reader.bad_rows[i] : i \in 1..Len(reader.bad_rows)}

\* The step finalizes one record, the record in flight: the caller feeds
\* one byte that ends it, or calls end_feed.
FinalizesOne ==
    /\ mode = "push"
    /\ phase = "feeding"
    /\ pos' = pos + 1 \/ phase' = "ended"
    /\ reader'.n_final = reader.n_final + 1

\* C36: correct_rows is the number of rows ever appended to the output
\* queue (all_src keeps them all, also those clear() or read_row took
\* away); it never decreases; and finalizing a header or pre-header
\* record, a malformed record or an empty record leaves it as it is.
C36_CorrectRows ==
    [][/\ reader.correct_rows = Len(reader.all_src)
       /\ reader'.correct_rows = Len(reader'.all_src)
       /\ reader'.correct_rows >= reader.correct_rows
       /\ (/\ FinalizesOne
           /\ \/ reader.row_num <= reader.header_row
              \/ reader'.bad_rows # reader.bad_rows
              \/ reader.record_buffer = BlankRecord) =>
                reader'.correct_rows = reader.correct_rows
      ]_vars

\* The record terminators of an unquoted input (CR LF counting as one).
Terminators(s) == Len(SplitOn(Normalize(s), LF)) - 1

\* The record at the header index was taken as the header.
HeaderConsumed ==
    /\ config.format.col_names = <<>>
    /\ config.format.header \in 0..Terminators(input)

\* C37: an unquoted input of T record terminators and an unterminated
\* last record was fed in one call and end_feed has returned: row_num is
\* T + 1, less 1 when a header row was consumed, whether or not records
\* were malformed.
C37_RowNum ==
    (/\ mode = "push" /\ phase = "ended" /\ feed_calls <= 1
     /\ NoQuote(input) /\ input # <<>> /\ Last(input) \notin {CR, LF}) =>
        reader.row_num =
            Terminators(input) + 1 - (IF HeaderConsumed THEN 1 ELSE 0)

(***************************************************************************)
(* second_guess: where each field count first occurred.                    *)
(***************************************************************************)
\* The records of the lines a guessing reader reads under the candidate
\* d, each as its fields, in the order of the file.
GuessRecords(file, d) ==
    LET got == ReadLines(file, 0, GuessLines, <<>>)
        lines == SplitOn(Normalize(AsDelim(got.bytes, d)), LF)
    IN  [i \in 1..Len(lines) |-> SplitOn(lines[i], delimiter)]

\* The zero-based index of the first of the records recs that has K fields.
FirstWith(recs, K) ==
    (CHOOSE i \in 1..Len(recs) :
        Len(recs[i]) = K /\ \A j \in 1..(i - 1) : Len(recs[j]) # K) - 1

\* C38: in second_guess, for the candidate at hand and every field count
\* K that row_when has recorded, row_when[K] is the zero-based index among
\* the records of the file of the first record with K fields; and the
\* header row guess_format reports after a candidate took the lead is
\* that index for the candidate's winning field count.
C38_RowWhen ==
    /\ (guess.pc = "second" /\ guess.i < Len(delims)) =>
            LET d == delims[guess.i + 1]
                p == GuessReader(guess.file, d)
            IN  \A K \in DOMAIN row_when(p) \ {0} :
                    row_when(p)[K] = FirstWith(GuessRecords(guess.file, d), K)
    /\ (guess.pc = "returned" /\ guess.won # "none") =>
            GuessedFormat.header =
                FirstWith(GuessRecords(guess.file, guess.won), guess.max_rlen)

\* The step finalizes a zero-length record after the header: the byte
\* before was an LF that ended a record, nothing has come since, and the
\* caller feeds one more terminator or calls end_feed.
FinalizesBlank ==
    /\ FinalizesOne
    /\ pos >= 1
    /\ input[pos] = LF
    /\ reader.record_buffer = BlankRecord
    /\ reader.row_num > reader.header_row

\* C39: a zero-length record finalized after the header is dropped
\* silently, whatever the number of column names: no row is queued,
\* correct_rows stays as it is and the bad-row hook is not called.
C39_BlankDropped ==
    [][FinalizesBlank =>
            /\ reader'.records = reader.records
            /\ reader'.correct_rows = reader.correct_rows
            /\ reader'.bad_rows = reader.bad_rows
      ]_vars

(***************************************************************************)
(* CSVReader::read_row(std::vector<CSVField>&): the row at current_row     *)
(* converted field by field.                                               *)
(***************************************************************************)
\* helpers::data_type as one call: the loop over the bytes, then the
\* verdict after it.
RECURSIVE ScanFrom(_)
ScanFrom(s) ==
    IF s.pc = "returned" THEN s.result
    ELSE IF s.i < Len(s.in) THEN ScanFrom(Switch(s, FALSE))
    ELSE AfterLoop(s).result

data_type(in) == IF Len(in) = 0 THEN _null ELSE ScanFrom(Locals(in))

\* Most digits of a text std::stoll converts to a long long (18 in the
\* source's platforms), scaled.
LongLongDigits == 2
\* Most digits before the decimal point of a text std::stold converts to a
\* long double (4932), scaled.
LongDoubleDigits == 3

\* How many bytes of s from (one-based) position k on are the byte b.
RECURSIVE Run(_, _, _)
Run(s, k, b) == IF k <= Len(s) /\ s[k] = b THEN 1 + Run(s, k + 1, b) ELSE 0

\* std::stoll(s): leading white space is skipped, then an optional sign,
\* then the digits; no digit there is std::invalid_argument, more digits
\* than a long long holds std::out_of_range.
stoll(s) ==
    LET ws == Run(s, 1, SPACE)
        sign == IF Run(s, ws + 1, MINUS) > 0 THEN 1 ELSE 0
        n == Run(s, ws + sign + 1, DIGIT)
    IN  IF n = 0 THEN [thrown |-> "invalid_argument"]
        ELSE IF n > LongLongDigits THEN [thrown |-> "out_of_range"]
        ELSE [thrown |-> "none", value |-> SubSeq(s, ws + 1, ws + sign + n)]

\* std::stold(s): as stoll, with an optional decimal point among the digits.
stold(s) ==
    LET ws == Run(s, 1, SPACE)
        sign == IF Run(s, ws + 1, MINUS) > 0 THEN 1 ELSE 0
        n == Run(s, ws + sign + 1, DIGIT)
        dot == IF Run(s, ws + sign + n + 1, DOT) > 0 THEN 1 ELSE 0
        f == IF dot = 1 THEN Run(s, ws + sign + n + 2, DIGIT) ELSE 0
    IN  IF n + f = 0 THEN [thrown |-> "invalid_argument"]
        ELSE IF n > LongDoubleDigits THEN [thrown |-> "out_of_range"]
        ELSE [thrown |-> "none",
              value |-> SubSeq(s, ws + 1, ws + sign + n + (IF f > 0 THEN 1 + f ELSE 0))]

\* CSVField(value, dtype, overflow)
CSVField(value, dtype, overflow) ==
    [value |-> value, dtype |-> dtype, overflow |-> overflow]

\* The loop over the fields of temp from (one-based) position k on, out
\* being the caller's row so far: the row it leaves and the exception that
\* leaves read_row, if any.  The break in the handler of std::out_of_range
\* leaves the loop.
RECURSIVE ConvertFrom(_, _, _)
ConvertFrom(temp, k, out) ==
    IF k > Len(temp) THEN [row |-> out, thrown |-> "none"]
    ELSE LET dtype == data_type(temp[k])
             got == IF dtype = _int THEN stoll(temp[k])
                    ELSE IF dtype = _float THEN stold(temp[k])
                    ELSE [thrown |-> "none", value |-> temp[k]]
         IN  IF got.thrown = "out_of_range"
             THEN [row |-> out, thrown |-> "none"]
             ELSE IF got.thrown # "none"
             THEN [row |-> out, thrown |-> got.thrown]
             ELSE ConvertFrom(temp, k + 1,
                              Append(out, CSVField(got.value, dtype, FALSE)))

\* The texts the fields tried are made of: empty, a word, an integer, a
\* float, an integer and a float too large to convert, and a sign parted
\* from its digits.
TypedTexts ==
    { <<>>, <<LETTER>>, <<DIGIT>>, <<DIGIT, DOT, DIGIT>>,
      [i \in 1..(LongLongDigits + 1) |-> DIGIT],
      [i \in 1..(LongDoubleDigits + 1) |-> DIGIT] \o <<DOT>>,
      <<MINUS, SPACE, DIGIT>> }

\* Most fields of a record tried.
MaxFields == 3

RECURSIVE RecordsOf(_)
RecordsOf(n) ==
    IF n = 1 THEN {<<t>> : t \in TypedTexts}
    ELSE {Append(r, t) : r \in RecordsOf(n - 1), t \in TypedTexts}

TypedRecords == UNION {RecordsOf(n) : n \in 1..MaxFields}

\* The line of a record: its fields parted by the delimiter.
RECURSIVE Join(_)
Join(r) ==
    IF Len(r) = 1 THEN r[1] ELSE r[1] \o <<delimiter>> \o Join(Tail(r))

\* CSVReader r(DEFAULT_CSV); r.feed(header line and one record);
\* r.end_feed(): the reader whose rows the caller is about to read typed.
InitTyped ==
    /\ mode = "typed"
    /\ config = [format |-> DEFAULT_CSV, subset |-> <<>>]
    /\ \E r \in TypedRecords :
          input = Join([i \in 1..Len(r) |-> <<LETTER>>]) \o <<LF>> \o Join(r)
    /\ reader = end_feed(feed(NewReader(DEFAULT_CSV, <<>>, <<>>), input, <<>>), <<>>)
    /\ phase = "ended"
    /\ rpc = "idle"
    /\ caller = "none"
    /\ nrows = 0
    /\ InitObject
    /\ scan = NoCall
    /\ guess = NoCall

\* read_row(std::vector<CSVField>&): read_row_check, then row.clear(), the
\* loop over the fields, current_row++ and return true; no file is open,
\* so read_row_check reads nothing more.
ReadRowTyped ==
    /\ mode = "typed"
    /\ error = "none"
    /\ ret # "false"
    /\ \E wild \in BOOLEAN :
        LET p == SetCurrentRow(reader)
        IN  IF AtEnd(p, wild)
            THEN /\ reader' = ClearInCheck(p)
                 /\ ret' = "false"
                 /\ UNCHANGED <<row, delivered, error>>
            ELSE LET temp == IF p.dangling THEN WildRow[1]
                             ELSE p.records[p.current_row + 1]
                     done == ConvertFrom(temp, 1, <<>>)
                 IN  /\ row' = done.row
                     /\ IF done.thrown # "none"
                        THEN /\ error' = done.thrown
                             /\ reader' = p
                             /\ UNCHANGED <<ret, delivered>>
                        ELSE /\ ret' = "true"
                             /\ reader' = [p EXCEPT !.current_row = @ + 1]
                             /\ delivered' =
                                    IF p.dangling THEN delivered
                                    ELSE Append(delivered, p.row_src[p.current_row + 1])
                             /\ UNCHANGED error
    /\ UNCHANGED <<config, mode, input, phase, pushVars, fileVars, callVars,
                   queueVars, workerVars>>
    /\ UNCHANGED <<iterVars, helperVars>>

SpecTyped == InitTyped /\ [][ReadRowTyped]_vars

\* The caller's first call of the typed read_row is over; temp is the
\* record it was to deliver.
TypedCalled ==
    /\ mode = "typed"
    /\ ret = "true" \/ error # "none"
    /\ reader.records # <<>>
    /\ reader.current_row <= 1

\* The conversion of text t meets a number too large for its type.
Overflows(t) ==
    \/ data_type(t) = _int /\ stoll(t).thrown = "out_of_range"
    \/ data_type(t) = _float /\ stold(t).thrown = "out_of_range"

\* C40: the typed read_row returns true with a row of as many fields as
\* the record has, field i being of the type data_type gives text i, its
\* overflow flag set exactly when the number is too large to convert; the
\* fields after an overflowing one are delivered as well.
C40_TypedRow ==
    TypedCalled =>
        LET temp == reader.records[1]
        IN  /\ error = "none"
            /\ Len(row) = Len(temp)
            /\ \A i \in 1..Len(temp) :
                    i <= Len(row) =>
                        /\ row[i].dtype = data_type(temp[i])
                        /\ row[i].overflow = Overflows(temp[i])

====================================================================
